---- MODULE Spec2Model ----
(***************************************************************************)
(* Model of the declarative bundle resolution and execution engine:        *)
(*   - resolve_bundles            (agents/query_bundle_loader.py)          *)
(*   - execute_data_queries       (agents/query_executor.py, db/context.py)*)
(*   - _apply_layout_sequence, _fallback_layout (agents/compose_agent.py)  *)
(*   - execute_bundles            (agents/api_bundle_loader.py)            *)
(*   - _substitute_vars           (agents/api_bundle_loader.py)            *)
(*   - call_kcisa_api, call_kma_asos_daily_api (agents/api_utils.py)       *)
(*   - _assign_block_ids, _generate_paired_markdowns,                      *)
(*     analyse_agent_node          (agents/analyse_agent.py)               *)
(*   - concurrent runs of execute_data_queries                             *)
(*   - _load_config, reload_config, get_preset_for_org,                    *)
(*     get_bundles_for_preset      (both bundle loaders)                   *)
(*   - _calculate_demographics_stats (agents/query_executor.py)            *)
(*   - compose_report_node         (agents/compose_agent.py)               *)
(* Each component has its own specification; the variables of the other    *)
(* components rest at their idle values.                                   *)
(***************************************************************************)
EXTENDS Integers, Sequences, FiniteSets, TLC

VARIABLES
    \* ---- resolve_bundles ----
    rb_requires,     \* config: bundle name -> its "requires" list
    bundle_names,    \* argument: the requested bundle names
    rb_i,            \* position of the loop of line 210
    all_queries,     \* parsed queries, in order
    all_stats,       \* stats, first occurrence order
    block_configs,   \* bundle name -> block config
    loaded_bundles,  \* the loaded set
    rb_pc,           \* "idle" | "loop" | "returned" | "raised"
    \* ---- execute_data_queries ----
    ex_n,            \* len(queries)
    ex_i,            \* position of the loop of line 247
    ex_query,        \* the query of the last iteration (action, save_as, params)
    resolved_params, \* its resolved params
    results,         \* save_as key -> data
    errors,          \* the run's errors list
    backend_log,     \* what the database did at each executed step
    db_session,      \* "none" | "open" | "closed"
    db_acquired,     \* number of CapstoneSessionLocal() calls
    db_closed,       \* number of db.close() calls
    db_rolled_back,  \* db.rollback() was called
    output,          \* the returned dict
    ex_pc,           \* "idle" | "start" | "loop" | "left" | "returned" | "raised"
    \* ---- compose_report_node, _apply_layout_sequence, _fallback_layout ----
    block_drafts,    \* the flat block list
    layout_sequence, \* the sequence of the finalize_report_layout call, or None
    blocks,          \* the composed blocks
    fb_i,            \* i of _fallback_layout
    lay_path,        \* "none" | "empty" | "external" | "fallback"
    lay_pc,          \* "idle" | "compose" | "fallback" | "done"
    \* ---- execute_bundles (api_bundle_loader.py) ----
    api_config,      \* api_bundles.json: bundle name -> definition
    api_request,     \* argument: the bundle names to execute
    api_i,           \* position of the loop of line 377
    api_oracle,      \* what each backend function did in the last iteration
    api_results,     \* bundle name -> (api_result, block_config)
    api_pc,          \* "idle" | "loop" | "returned" | "raised"
    \* ---- call_kcisa_api, call_kma_asos_daily_api (api_utils.py) ----
    rt_func,         \* the function called
    rt_attempt,      \* attempt of the for loop
    rt_log,          \* what each HTTP attempt did
    rt_sleeps,       \* the time.sleep calls, in order
    last_exc,        \* the last exception caught in the loop, or None
    resp,            \* the last response assigned, or None
    rt_result,       \* the returned dict
    rt_pc,           \* "idle" | "lookup" | "loop" | "after" | "returned"
    \* ---- analyse_agent_node: id assignment and pairing (analyse_agent.py) ----
    an_input,        \* the merged block drafts of line 1193
    an_blocks,       \* block_drafts from line 1196 on
    paired_markdowns,\* the list returned by _generate_paired_markdowns
    an_llm,          \* what the text generator answered to the pairing request
    an_pc,           \* "idle" | "ids" | "pair" | "extend" | "done" | "raised"
    \* ---- _substitute_vars (api_bundle_loader.py) ----
    sv_value,        \* argument: the string value, as segments
    sv_context,      \* argument: the context dict
    sv_result,       \* the returned value
    sv_pc,           \* "idle" | "call" | "done"
    \* ---- concurrent runs of execute_data_queries (query_executor.py, db/context.py) ----
    cc_run,          \* run -> its locals: pc, n, i, query, resolved_params, results, errors, db, used
    cc_sessions,     \* the sessions made by CapstoneSessionLocal(), in order of creation
    \* ---- _load_config, reload_config (query_bundle_loader.py, api_bundle_loader.py) ----
    cf_loader,       \* which loader module: "query" | "api"
    cf_source,       \* the config file: a configuration, or why it cannot be loaded
    cf_bad,          \* the config file has been unloadable at some time
    _BUNDLES_CONFIG, \* the module global: None or the cached value
    cf_call,         \* thread -> its call: op, pc, entry, parsed, seen, ret
    \* ---- _calculate_demographics_stats (query_executor.py) ----
    dm_input,        \* argument: the demographics rows
    dm_result,       \* the returned dict, or the exception raised
    dm_pc,           \* "idle" | "call" | "done"
    \* ---- get_preset_for_org, get_bundles_for_preset (query_bundle_loader.py, api_bundle_loader.py) ----
    ps_loader,       \* which loader module: "query" | "api"
    ps_config,       \* the loaded configuration
    org_name,        \* argument of get_preset_for_org, as a sequence of characters
    ps_preset,       \* the preset returned by get_preset_for_org
    preset_name,     \* argument of get_bundles_for_preset
    ps_bundles,      \* what get_bundles_for_preset did: raised, bundles
    ps_pc,           \* "idle" | "preset" | "bundles" | "done"
    \* ---- compose_report_node: the loop of the layout decision-maker (compose_agent.py) ----
    cp_invocations,  \* number of llm_with_tools.invoke calls made
    cp_response,     \* the last response of the decision-maker
    cp_is_set,       \* layout_sequence is not None
    cp_first,        \* the first finalize_report_layout call received, or none
    cp_raised        \* an exception reached the except clause of line 452

rbVars == <<rb_requires, bundle_names, rb_i, all_queries, all_stats,
            block_configs, loaded_bundles, rb_pc>>

exVars == <<ex_n, ex_i, ex_query, resolved_params, results, errors,
            backend_log, db_session, db_acquired, db_closed, db_rolled_back,
            output, ex_pc>>

layVars == <<block_drafts, layout_sequence, blocks, fb_i, lay_path, lay_pc>>

apiVars == <<api_config, api_request, api_i, api_oracle, api_results, api_pc>>

rtVars == <<rt_func, rt_attempt, rt_log, rt_sleeps, last_exc, resp, rt_result, rt_pc>>

anVars == <<an_input, an_blocks, paired_markdowns, an_llm, an_pc>>

svVars == <<sv_value, sv_context, sv_result, sv_pc>>

ccVars == <<cc_run, cc_sessions>>

cfVars == <<cf_loader, cf_source, cf_bad, _BUNDLES_CONFIG, cf_call>>

dmVars == <<dm_input, dm_result, dm_pc>>

psVars == <<ps_loader, ps_config, org_name, ps_preset, preset_name, ps_bundles, ps_pc>>

cpVars == <<cp_invocations, cp_response, cp_is_set, cp_first, cp_raised>>

vars == <<rbVars, exVars, layVars, apiVars, rtVars, anVars, svVars, ccVars, cfVars, dmVars, psVars, cpVars>>

notRb == <<exVars, layVars, apiVars, rtVars, anVars, svVars, ccVars, cfVars, dmVars, psVars, cpVars>>
notEx == <<rbVars, layVars, apiVars, rtVars, anVars, svVars, ccVars, cfVars, dmVars, psVars, cpVars>>
notLay == <<rbVars, exVars, apiVars, rtVars, anVars, svVars, ccVars, cfVars, dmVars, psVars, cpVars>>
notApi == <<rbVars, exVars, layVars, rtVars, anVars, svVars, ccVars, cfVars, dmVars, psVars, cpVars>>
notRt == <<rbVars, exVars, layVars, apiVars, anVars, svVars, ccVars, cfVars, dmVars, psVars, cpVars>>
notAn == <<rbVars, exVars, layVars, apiVars, rtVars, svVars, ccVars, cfVars, dmVars, psVars, cpVars>>
notSv == <<rbVars, exVars, layVars, apiVars, rtVars, anVars, ccVars, cfVars, dmVars, psVars, cpVars>>
notCc == <<rbVars, exVars, layVars, apiVars, rtVars, anVars, svVars, cfVars, dmVars, psVars, cpVars>>
notCf == <<rbVars, exVars, layVars, apiVars, rtVars, anVars, svVars, ccVars, dmVars, psVars, cpVars>>
notDm == <<rbVars, exVars, layVars, apiVars, rtVars, anVars, svVars, ccVars, cfVars, psVars, cpVars>>
notPs == <<rbVars, exVars, layVars, apiVars, rtVars, anVars, svVars, ccVars, cfVars, dmVars, cpVars>>
notCp == <<rbVars, exVars, layVars, apiVars, rtVars, anVars, svVars, ccVars, cfVars, dmVars, psVars>>
notLayCp == <<rbVars, exVars, apiVars, rtVars, anVars, svVars, ccVars, cfVars, dmVars, psVars>>

\* Python's None.
None == "None"

(***************************************************************************)
(* Small helpers on sequences.                                             *)
(***************************************************************************)
Range(s) == {s[k] : k \in 1..Len(s)}

SeqsUpTo(S, n) == UNION {[1..k -> S] : k \in 0..n}

(***************************************************************************)
(* Bounds.                                                                 *)
(***************************************************************************)
\* longest "requires" list of a bundle
MaxRequires == 1
\* longest request list
MaxRequest == 2
\* depth at which the interpreter raises RecursionError
RecursionLimit == 4

(***************************************************************************)
(* query_bundles.json: the bundles.  The queries, stats and block of each  *)
(* bundle are fixed; the requires lists are chosen in RbInit.              *)
(***************************************************************************)
KnownBundles == {"A", "B", "C"}
UnknownBundle == "X"
BundleNames == KnownBundles \cup {UnknownBundle}

RawQuery(action, arity, save_as) ==
    [action |-> action, arity |-> arity, save_as |-> save_as]

BundleQueries(name) ==
    CASE name = "A" -> << RawQuery("search", 5, "a1"),
                          RawQuery("filter", 4, "a2"),
                          RawQuery("filter", 5, "a3") >>
      [] name = "B" -> << RawQuery("search", 5, "b1") >>
      [] name = "C" -> << RawQuery("aggregate", 4, "c1"),
                          RawQuery("range_filter", 5, "c2"),
                          RawQuery("search", 2, "c3") >>
      [] OTHER -> << >>

BundleStats(name) ==
    CASE name = "A" -> << "review_stats" >>
      [] name = "B" -> << "review_stats", "demographics_stats" >>
      [] OTHER -> << >>

\* the "block" entry of a bundle; None when the bundle has none
BundleBlock(name) ==
    CASE name = "A" -> "bar"
      [] name = "C" -> "map"
      [] OTHER -> None

(***************************************************************************)
(* _parse_query_array: the parsed query, or {} for a malformed array.      *)
(* The result is a sequence: << >> stands for {}, << q >> for a query.     *)
(***************************************************************************)
ParsedQuery(bundle, raw) ==
    << [action |-> raw.action, save_as |-> raw.save_as, bundle |-> bundle] >>

_parse_query_array(bundle, raw) ==
    IF raw.arity < 3 THEN << >>
    ELSE IF raw.action = "search"
         THEN IF raw.arity # 5 THEN << >> ELSE ParsedQuery(bundle, raw)
    ELSE IF raw.action = "filter"
         THEN IF raw.arity # 5 THEN << >> ELSE ParsedQuery(bundle, raw)
    ELSE IF raw.action = "aggregate" THEN ParsedQuery(bundle, raw)
    ELSE << >>

\* lines 188-191: for query_arr in queries: if parsed: all_queries.append
RECURSIVE ParseAll(_, _)
ParseAll(bundle, raws) ==
    IF raws = << >> THEN << >>
    ELSE _parse_query_array(bundle, Head(raws)) \o ParseAll(bundle, Tail(raws))

\* lines 194-196: for stat in stats: if stat not in all_stats: append
RECURSIVE AddStats(_, _)
AddStats(stats, new) ==
    IF new = << >> THEN stats
    ELSE AddStats(IF Head(new) \in Range(stats) THEN stats
                  ELSE Append(stats, Head(new)), Tail(new))

(***************************************************************************)
(* resolve_bundles._load_bundle.  st is the closure state                  *)
(* (all_queries, all_stats, block_configs, loaded_bundles) plus "raised",  *)
(* set when the recursion exceeds the interpreter's limit.                 *)
(***************************************************************************)
RbState(q, s, b, l, r) ==
    [queries |-> q, stats |-> s, blocks |-> b, loaded |-> l, raised |-> r]

\* line 175: if name in loaded_bundles: return
AlreadyLoadedNever(st, name) == FALSE

AlreadyLoaded(st, name) == name \in st.loaded

\* lines 188-206: the bundle's own queries, stats, block config, loaded mark
AddOwn(st, name) ==
    [st EXCEPT !.queries = @ \o ParseAll(name, BundleQueries(name)),
               !.stats = AddStats(@, BundleStats(name)),
               !.blocks = (name :> BundleBlock(name)) @@ @,
               !.loaded = @ \cup {name}]

\* a mutant: a name absent from the configuration is fatal
BundleMissingRaises(st, name) == [st EXCEPT !.raised = TRUE]

\* lines 178-181: bundles.get(name) is None: a warning is logged, return
BundleMissing(st, name) == st

RECURSIVE _load_bundle(_, _, _, _), LoadDeps(_, _, _, _)

\* lines 184-185: for dep in bundle.get("requires", []): _load_bundle(dep)
LoadDeps(req, deps, st, depth) ==
    IF deps = << >> \/ st.raised THEN st
    ELSE LoadDeps(req, Tail(deps), _load_bundle(req, Head(deps), st, depth), depth)

\* a mutant: the bundle's own queries are appended before its requires
LoadKnownOwnFirst(req, name, st, depth) ==
    LoadDeps(req, req[name], AddOwn(st, name), depth + 1)

\* lines 183-206 for a bundle found in the configuration
LoadKnown(req, name, st, depth) ==
    LET after == LoadDeps(req, req[name], st, depth + 1)
    IN  IF after.raised THEN after ELSE AddOwn(after, name)

_load_bundle(req, name, st, depth) ==
    IF depth > RecursionLimit THEN [st EXCEPT !.raised = TRUE]
    ELSE IF AlreadyLoaded(st, name) THEN st
    ELSE IF name \notin KnownBundles THEN BundleMissing(st, name)
    ELSE LoadKnown(req, name, st, depth)

(***************************************************************************)
(* resolve_bundles as a process: one step per iteration of line 210.       *)
(***************************************************************************)
RbIdle ==
    /\ rb_requires = << >>
    /\ bundle_names = << >>
    /\ rb_i = 0
    /\ all_queries = << >>
    /\ all_stats = << >>
    /\ block_configs = << >>
    /\ loaded_bundles = {}
    /\ rb_pc = "idle"

RbInit ==
    /\ rb_requires \in [KnownBundles -> SeqsUpTo(BundleNames, MaxRequires)]
    /\ bundle_names \in SeqsUpTo(BundleNames, MaxRequest)
    /\ rb_i = 1
    /\ all_queries = << >>
    /\ all_stats = << >>
    /\ block_configs = << >>
    /\ loaded_bundles = {}
    /\ rb_pc = "loop"

\* lines 210-211: for bundle_name in bundle_names: _load_bundle(bundle_name)
\* A RecursionError is not caught anywhere in resolve_bundles.
RbLoadNext ==
    /\ rb_pc = "loop"
    /\ rb_i <= Len(bundle_names)
    /\ LET st == _load_bundle(rb_requires, bundle_names[rb_i],
                              RbState(all_queries, all_stats, block_configs,
                                      loaded_bundles, FALSE), 1)
       IN  /\ all_queries' = st.queries
           /\ all_stats' = st.stats
           /\ block_configs' = st.blocks
           /\ loaded_bundles' = st.loaded
           /\ rb_pc' = IF st.raised THEN "raised" ELSE "loop"
           /\ rb_i' = IF st.raised THEN rb_i ELSE rb_i + 1
    /\ UNCHANGED <<rb_requires, bundle_names>>
    /\ UNCHANGED notRb

\* line 215: return all_queries, all_stats, block_configs
RbReturn ==
    /\ rb_pc = "loop"
    /\ rb_i > Len(bundle_names)
    /\ rb_pc' = "returned"
    /\ UNCHANGED <<rb_requires, bundle_names, rb_i, all_queries, all_stats,
                   block_configs, loaded_bundles>>
    /\ UNCHANGED notRb




(***************************************************************************)
(* execute_data_queries.                                                   *)
(*                                                                         *)
(* Python values are tagged: [t |-> "str" | "int" | "none" | "dict" |      *)
(* "list", v |-> ...].                                                     *)
(***************************************************************************)
\* longest query plan
MaxSteps == 3

StrV(s) == [t |-> "str", v |-> s]
IntV(n) == [t |-> "int", v |-> n]
NoneV == [t |-> "none", v |-> None]
DictV(d) == [t |-> "dict", v |-> d]
ListV(l) == [t |-> "list", v |-> l]

\* save_as of step i; the keys of one plan are distinct
KeyNames == << "s1", "s2", "s3", "s4", "s5", "s6" >>
KeyOf(i) == KeyNames[i]
Keys == {KeyOf(i) : i \in 1..MaxSteps}
NeverStoredKey == "zz"

\* a string is a sequence of segments: literal text, or a reference {a.b.c}
Lit(text) == [seg |-> "lit", text |-> text, path |-> << >>]
Ref(path) == [seg |-> "ref", text |-> "", path |-> path]

RefPaths ==
    UNION {{ << k >>, << k, "f" >>, << k, "g" >>, << k, "f", "h" >> } :
           k \in Keys \cup {NeverStoredKey}}

ParamStrings ==
    {<< Lit("x") >>, << Lit("7") >>}
    \cup {<< Ref(p) >> : p \in RefPaths}
    \cup {<< Lit("x"), Ref(<< k, "f" >>) >> : k \in Keys}
    \cup {<< Ref(<< KeyOf(1), "f" >>), Ref(<< k, "f" >>) >> : k \in Keys}

\* params: "flat"    {"search_value": <string>}
\*         "nested"  {"filters": {"col": <string>}}
\*         "json"    {"filters": "<a JSON object as a string>"}
\*         "badjson" {"filters": "<a string that is not JSON>"}
\*         "number"  {"limit": 7}
Params(shape, str) == [shape |-> shape, str |-> str]

Query(action, params) == [action |-> action, params |-> params]

\* the queries of a plan (queries whose params is a dict)
WellFormedQueries ==
    {Query("search", Params("flat", st)) : st \in ParamStrings}
    \cup {Query("filter", Params("nested", << Ref(<< k, "f" >>) >>)) :
          k \in Keys \cup {NeverStoredKey}}
    \cup {Query("filter", Params("json", << Lit("x") >>)),
          Query("filter", Params("badjson", << Lit("x") >>)),
          Query("aggregate", Params("flat", << Lit("x") >>)),
          Query("range_filter", Params("number", << Lit("7") >>))}

\* the rows a successful query returns
Row1 == DictV([f |-> StrV("SLTA062"), g |-> IntV(7)])
Row2 == DictV([f |-> NoneV])
Row3 == DictV([f |-> DictV([h |-> StrV("deep")])])
DBRows == {<< >>, << Row1 >>, << Row2, Row1 >>, << Row3 >>}

\* what the database does with one query
BackendOutcomes == {[raises |-> TRUE, rows |-> << >>]}
                   \cup {[raises |-> FALSE, rows |-> r] : r \in DBRows}

(***************************************************************************)
(* _resolve_reference                                                      *)
(***************************************************************************)
DictGet(d, k) == IF k \in DOMAIN d THEN d[k] ELSE NoneV

\* lines 30-37: the walk along the dotted path; ok = FALSE is the early
\* "return match.group(0)"
RECURSIVE Walk(_, _)
Walk(result, parts) ==
    IF parts = << >> THEN [ok |-> TRUE, val |-> result]
    ELSE IF result.t = "dict" /\ Head(parts) \in DOMAIN result.v
         THEN Walk(result.v[Head(parts)], Tail(parts))
    ELSE IF result.t = "list" /\ Len(result.v) > 0
         THEN Walk(IF result.v[1].t = "dict"
                   THEN DictGet(result.v[1].v, Head(parts)) ELSE NoneV,
                   Tail(parts))
    ELSE [ok |-> FALSE, val |-> NoneV]

\* str(result)
PyStr(val) ==
    CASE val.t = "str" -> val.v
      [] val.t = "int" -> IF val.v = 7 THEN "7" ELSE "<int>"
      [] val.t = "list" -> IF val.v = << >> THEN "[]" ELSE "[...]"
      [] val.t = "dict" -> "{...}"
      [] OTHER -> "None"

\* a mutant: a missing path segment yields the empty string
ReplacerBlankOnMiss(seg, context) ==
    LET w == Walk(DictV(context), seg.path)
    IN  IF ~w.ok \/ w.val.t = "none" THEN Lit("") ELSE Lit(PyStr(w.val))

\* lines 26-39: replacer(match)
Replacer(seg, context) ==
    LET w == Walk(DictV(context), seg.path)
    IN  IF ~w.ok THEN seg
        ELSE IF w.val.t = "none" THEN seg
        ELSE Lit(PyStr(w.val))

\* line 41: re.sub(pattern, replacer, value)
_resolve_reference(str, context) ==
    [k \in 1..Len(str) |->
        IF str[k].seg = "ref" THEN Replacer(str[k], context) ELSE str[k]]

\* str.isdigit() of the joined text
DigitTexts == {"7"}
IsDigit(str) ==
    /\ str # << >>
    /\ \A k \in 1..Len(str) : str[k].seg = "lit" /\ str[k].text \in DigitTexts

(***************************************************************************)
(* _resolve_params: the resolved value of the params' one entry.  A string *)
(* of digits becomes an int (kind "int"), another string stays a string.   *)
(***************************************************************************)
_resolve_params(params, context) ==
    IF params.shape = "number"
    THEN [shape |-> params.shape, kind |-> "int", str |-> params.str]
    ELSE LET r == _resolve_reference(params.str, context)
         IN  [shape |-> params.shape,
              kind |-> IF IsDigit(r) THEN "int" ELSE "str",
              str |-> r]

(***************************************************************************)
(* DBQueryTool.query: every exception of the query is caught and returned  *)
(* as a one-row result [{"error": ...}].                                   *)
(***************************************************************************)
ErrorRow(msg) == DictV([error |-> StrV(msg)])

DBQueryTool_query(session, outcome) ==
    IF session # "open" \/ outcome.raises
    THEN << ErrorRow("query error") >>
    ELSE outcome.rows

(***************************************************************************)
(* One iteration of the loop, lines 248-295.  The result is               *)
(* [raised, exc, data, called]: raised = an exception reached the except   *)
(* clause of line 291; called = the database was asked.                    *)
(***************************************************************************)
StepOk(data, called) ==
    [raised |-> FALSE, exc |-> "", data |-> data, called |-> called]
StepRaised(exc) ==
    [raised |-> TRUE, exc |-> exc, data |-> << >>, called |-> FALSE]

TryBlock(action, rparams, session, outcome) ==
    IF action = "search"
    THEN StepOk(DBQueryTool_query(session, outcome), TRUE)
    ELSE IF action = "filter"
    THEN IF rparams.shape = "badjson"
         THEN StepRaised("JSONDecodeError")     \* line 268: json.loads
         ELSE StepOk(DBQueryTool_query(session, outcome), TRUE)
    ELSE IF action = "aggregate"
    \* line 277: DBQueryTool has no method get_aggregated_statistics
    THEN StepRaised("AttributeError")
    ELSE StepOk(<< ErrorRow("Unknown action") >>, FALSE)

\* line 294: results[save_as] = []
StoreOnError(res, save_as) == (save_as :> ListV(<< >>)) @@ res

\* lines 313-322: the per-key summary of the output
CountOf(data) == IF data.t = "list" THEN Len(data.v) ELSE 0

Output(res, errs) ==
    [success |-> Len(errs) = 0,
     errors |-> errs,
     counts |-> [k \in DOMAIN res |-> CountOf(res[k])]]

NoQuery == [action |-> "", save_as |-> "", params |-> Params("", << >>)]
NoResolved == [shape |-> "", kind |-> "", str |-> << >>]
NoOutput == [success |-> FALSE, errors |-> << >>, counts |-> << >>]

ExIdle ==
    /\ ex_n = 0
    /\ ex_i = 0
    /\ ex_query = NoQuery
    /\ resolved_params = NoResolved
    /\ results = << >>
    /\ errors = << >>
    /\ backend_log = << >>
    /\ db_session = "none"
    /\ db_acquired = 0
    /\ db_closed = 0
    /\ db_rolled_back = FALSE
    /\ output = NoOutput
    /\ ex_pc = "idle"

\* lines 241-242: results = {}, errors = []
ExInit ==
    /\ ex_n \in 0..MaxSteps
    /\ ex_i = 0
    /\ ex_query = NoQuery
    /\ resolved_params = NoResolved
    /\ results = << >>
    /\ errors = << >>
    /\ backend_log = << >>
    /\ db_session = "none"
    /\ db_acquired = 0
    /\ db_closed = 0
    /\ db_rolled_back = FALSE
    /\ output = NoOutput
    /\ ex_pc = "start"

\* line 244: with get_capstone_db_context() as db
ExEnter ==
    /\ ex_pc = "start"
    /\ db_session' = "open"
    /\ db_acquired' = db_acquired + 1    \* context.py line 61
    /\ ex_i' = 1
    /\ ex_pc' = "loop"
    /\ UNCHANGED <<ex_n, ex_query, resolved_params, results, errors,
                   backend_log, db_closed, db_rolled_back, output>>
    /\ UNCHANGED notEx

\* the database is asked only by search and filter (after json.loads)
ReachesBackend(q) ==
    \/ q.action = "search"
    \/ q.action = "filter" /\ q.params.shape # "badjson"

NoBackend == [raises |-> FALSE, rows |-> << >>]

\* lines 247-295: one iteration on a well-formed query
ExStep ==
    /\ ex_pc = "loop"
    /\ ex_i <= ex_n
    /\ \E q \in WellFormedQueries :
       \E outcome \in IF ReachesBackend(q) THEN BackendOutcomes ELSE {NoBackend} :
        LET save_as == KeyOf(ex_i)
            rp == _resolve_params(q.params, results)
            r == TryBlock(q.action, rp, db_session, outcome)
        IN  /\ ex_query' = [action |-> q.action, save_as |-> save_as,
                            params |-> q.params]
            /\ resolved_params' = rp
            /\ results' = IF r.raised THEN StoreOnError(results, save_as)
                          ELSE (save_as :> ListV(r.data)) @@ results
            /\ errors' = IF r.raised
                         THEN Append(errors, [step |-> ex_i, exc |-> r.exc])
                         ELSE errors
            /\ backend_log' = Append(backend_log,
                                 IF ~r.called THEN "not_called"
                                 ELSE IF outcome.raises THEN "raised"
                                 ELSE "rows")
    /\ ex_i' = ex_i + 1
    /\ UNCHANGED <<ex_n, db_session, db_acquired, db_closed, db_rolled_back,
                   output, ex_pc>>
    /\ UNCHANGED notEx

\* a mutant: the context manager has no finally clause
CloseOnExceptionNever(n) == n

\* context.py lines 64-68: except: rollback, raise; finally: close
CloseOnException(n) == n + 1

\* lines 248-252 are outside the try block: a query whose params is not a
\* dict makes _resolve_params raise, and the exception leaves the with block
ExStepEscapes ==
    /\ ex_pc = "loop"
    /\ ex_i <= ex_n
    /\ ex_query' = [action |-> "search", save_as |-> KeyOf(ex_i),
                    params |-> Params("not_a_dict", << >>)]
    /\ db_rolled_back' = TRUE
    /\ db_closed' = CloseOnException(db_closed)
    /\ db_session' = IF db_closed' > db_closed THEN "closed" ELSE db_session
    /\ ex_pc' = "raised"
    /\ UNCHANGED <<ex_n, ex_i, resolved_params, results, errors, backend_log,
                   db_acquired, output>>
    /\ UNCHANGED notEx

\* the loop is over: the with block is left, context.py line 68
ExLeave ==
    /\ ex_pc = "loop"
    /\ ex_i > ex_n
    /\ db_closed' = db_closed + 1
    /\ db_session' = "closed"
    /\ ex_pc' = "left"
    /\ UNCHANGED <<ex_n, ex_i, ex_query, resolved_params, results, errors,
                   backend_log, db_acquired, db_rolled_back, output>>
    /\ UNCHANGED notEx

\* lines 307-324
ExReturn ==
    /\ ex_pc = "left"
    /\ output' = Output(results, errors)
    /\ ex_pc' = "returned"
    /\ UNCHANGED <<ex_n, ex_i, ex_query, resolved_params, results, errors,
                   backend_log, db_session, db_acquired, db_closed,
                   db_rolled_back>>
    /\ UNCHANGED notEx


(***************************************************************************)
(* The block layout composer: compose_agent.py.                            *)
(***************************************************************************)
\* longest block list
MaxBlocks == 3
\* longest layout sequence
MaxSeqLen == 2
\* most indices in one row descriptor
MaxRowLen == 2

\* a block draft; src is its position in block_drafts (the dict's identity)
Block(type, chartType, src) ==
    [type |-> type, chartType |-> chartType, src |-> src,
     gap |-> "", children |-> << >>]

RowBlock(type, gap, children) ==
    [type |-> type, chartType |-> "", src |-> 0,
     gap |-> gap, children |-> children]

BlockKinds ==
    { << "markdown", "" >>, << "chart", "doughnut" >>, << "chart", "pie" >>,
      << "table", "" >>, << "map", "" >>, << "air_quality", "" >> }

BlockLists(n) ==
    UNION {{[j \in 1..k |-> Block(kinds[j][1], kinds[j][2], j)] :
            kinds \in [1..k -> BlockKinds]} : k \in 0..n}

\* items of a layout sequence: an index (Python, from 0), a row descriptor,
\* or a value that is neither an int nor a dict
IntItem(n) == [kind |-> "int", idx |-> n, indices |-> << >>]
RowItem(indices) == [kind |-> "dict", idx |-> 0, indices |-> indices]
OtherItem == [kind |-> "other", idx |-> 0, indices |-> << >>]

Indices == (0 - 1)..MaxBlocks

LayoutItems ==
    {IntItem(n) : n \in Indices}
    \cup {RowItem(ix) : ix \in SeqsUpTo(Indices, MaxRowLen)}
    \cup {OtherItem}

LayoutSequences == SeqsUpTo(LayoutItems, MaxSeqLen)

\* lines 200, 211: 0 <= idx < len(block_drafts)
InRange(idx, drafts) == 0 <= idx /\ idx < Len(drafts)

\* lines 209-212: the children of a row descriptor
RECURSIVE RowChildren(_, _)
RowChildren(drafts, indices) ==
    IF indices = << >> THEN << >>
    ELSE (IF InRange(Head(indices), drafts)
          THEN << drafts[Head(indices) + 1] >> ELSE << >>)
         \o RowChildren(drafts, Tail(indices))

\* a mutant: the row is appended whatever its children
HasChildrenAlways(children) == TRUE

\* line 214: if children:
HasChildren(children) == children # << >>

\* lines 197-219: one item of the sequence
PlaceItem(drafts, item) ==
    IF item.kind = "int"
    THEN IF InRange(item.idx, drafts) THEN << drafts[item.idx + 1] >> ELSE << >>
    ELSE IF item.kind = "dict"
    THEN LET children == RowChildren(drafts, item.indices)
         IN  IF HasChildren(children)
             THEN << RowBlock("row", "16px", children) >> ELSE << >>
    ELSE << >>

RECURSIVE PlaceAll(_, _)
PlaceAll(drafts, seq) ==
    IF seq = << >> THEN << >>
    ELSE PlaceItem(drafts, Head(seq)) \o PlaceAll(drafts, Tail(seq))

\* lines 190-221
_apply_layout_sequence(drafts, seq) ==
    IF seq = << >> THEN drafts ELSE PlaceAll(drafts, seq)

\* lines 314-320: two consecutive doughnut charts
IsDoughnut(b) == b.type = "chart" /\ b.chartType = "doughnut"

\* a mutant: the row keeps only the first chart
MergeRowDropsNext(current, next_block) ==
    RowBlock("row", "24px", << current >>)

\* lines 321-325
MergeRow(current, next_block) ==
    RowBlock("row", "24px", << current, next_block >>)

LayIdle ==
    /\ block_drafts = << >>
    /\ layout_sequence = None
    /\ blocks = << >>
    /\ fb_i = 0
    /\ lay_path = "none"
    /\ lay_pc = "idle"

\* compose_report_node is entered with some block_drafts
LayInit ==
    /\ block_drafts \in BlockLists(MaxBlocks)
    /\ layout_sequence = None
    /\ blocks = << >>
    /\ fb_i = 0
    /\ lay_path = "none"
    /\ lay_pc = "compose"

\* _fallback_layout is entered with some block_drafts (lines 303-307)
FbInit ==
    /\ block_drafts \in BlockLists(MaxBlocks)
    /\ layout_sequence = None
    /\ blocks = << >>
    /\ fb_i = 0
    /\ lay_path = "fallback"
    /\ lay_pc = "fallback"

\* lines 360-366: no block drafts
ComposeEmpty ==
    /\ lay_pc = "compose"
    /\ block_drafts = << >>
    /\ blocks' = << >>
    /\ lay_path' = "empty"
    /\ lay_pc' = "done"
    /\ UNCHANGED <<block_drafts, layout_sequence, fb_i>>
    /\ UNCHANGED notLay

\* lines 415-417, 445-446: a finalize_report_layout call was received; its
\* layout_sequence argument is applied as it is
ComposeApply ==
    /\ lay_pc = "compose"
    /\ block_drafts # << >>
    /\ \E seq \in LayoutSequences :
          /\ layout_sequence' = seq
          /\ blocks' = _apply_layout_sequence(block_drafts, seq)
    /\ lay_path' = "external"
    /\ lay_pc' = "done"
    /\ UNCHANGED <<block_drafts, fb_i>>
    /\ UNCHANGED notLay

\* lines 448-454: no finalize call, or the decision-maker raised;
\* _fallback_layout lines 303-307
ComposeFallback ==
    /\ lay_pc = "compose"
    /\ block_drafts # << >>
    /\ blocks' = << >>
    /\ fb_i' = 0
    /\ lay_path' = "fallback"
    /\ lay_pc' = "fallback"
    /\ UNCHANGED <<block_drafts, layout_sequence>>
    /\ UNCHANGED notLay

\* lines 309-330: one iteration of the while loop
FbIter ==
    /\ lay_pc = "fallback"
    /\ fb_i < Len(block_drafts)
    /\ LET current == block_drafts[fb_i + 1]
       IN  IF /\ IsDoughnut(current)
              /\ fb_i + 1 < Len(block_drafts)
              /\ IsDoughnut(block_drafts[fb_i + 2])
           THEN /\ blocks' = Append(blocks,
                                    MergeRow(current, block_drafts[fb_i + 2]))
                /\ fb_i' = fb_i + 2
           ELSE /\ blocks' = Append(blocks, current)
                /\ fb_i' = fb_i + 1
    /\ UNCHANGED <<block_drafts, layout_sequence, lay_path, lay_pc>>
    /\ UNCHANGED notLay

\* line 332 (and line 304 for the empty list)
FbReturn ==
    /\ lay_pc = "fallback"
    /\ fb_i >= Len(block_drafts)
    /\ lay_pc' = "done"
    /\ UNCHANGED <<block_drafts, layout_sequence, blocks, fb_i, lay_path>>
    /\ UNCHANGED notLay


(***************************************************************************)
(* The external-API executor: api_bundle_loader.py.                        *)
(***************************************************************************)
\* longest list of bundle names given to execute_bundles
MaxApiRequest == 2
\* longest "api_bundles" list of a mixed bundle
MaxMixedList == 1

\* API_FUNCTION_MAP, lines 177-188 (three of its entries)
API_FUNCTION_MAP == {"nearby_search", "street_view", "geocoding"}

\* the "api" entry of an api_only bundle
ApiChoices == API_FUNCTION_MAP \cup {"maps_javascript", "bogus"}

ApiOnlyBundles == {"b1", "b2"}
MixedBundle == "m1"
MissingBundle == "nope"
ApiBundleNames == ApiOnlyBundles \cup {MixedBundle, MissingBundle}

ApiOnly(api) ==
    [type |-> "api_only", api |-> api, api_bundle |-> None,
     api_bundles |-> << >>]
Mixed(single, list) ==
    [type |-> "mixed", api |-> "", api_bundle |-> single, api_bundles |-> list]
OtherType ==
    [type |-> "other", api |-> "", api_bundle |-> None, api_bundles |-> << >>]

\* api_bundle and api_bundles of a mixed bundle name API bundles
MixedRefs == ApiOnlyBundles \cup {MissingBundle}

ApiConfigs ==
    {[b1 |-> ApiOnly(a1), b2 |-> ApiOnly(a2), m1 |-> m] :
        a1 \in ApiChoices, a2 \in ApiChoices,
        m \in {OtherType}
              \cup {Mixed(single, list) :
                       single \in MixedRefs \cup {None},
                       list \in SeqsUpTo(MixedRefs, MaxMixedList)}}

ApiOutcomes == {"ok", "raise"}

\* an api_result
ApiResult(success, kind, error, sub) ==
    [success |-> success, kind |-> kind, error |-> error, api_results |-> sub]

Failure(error) == ApiResult(FALSE, "", error, << >>)

\* the result of execute_api_bundle, or the exception that left it
Returned(result, block) == [raised |-> FALSE, result |-> result, block |-> block]
Escaped == [raised |-> TRUE, result |-> Failure(""), block |-> None]

\* a mutant: _call_api without its except clause
CallBackendNoExcept(api_name, outcome) ==
    IF outcome = "raise" THEN Escaped
    ELSE Returned(ApiResult(TRUE, api_name, "", << >>), None)

\* lines 214-266: the try block around the backend function
CallBackend(api_name, outcome) ==
    IF outcome = "raise"
    THEN Returned(Failure("exception"), None)
    ELSE Returned(ApiResult(TRUE, api_name, "", << >>), None)

\* lines 191-266
_call_api(api_name, oracle) ==
    IF api_name = "maps_javascript"
    THEN Returned(ApiResult(TRUE, "map", "", << >>), None)
    ELSE IF api_name \notin API_FUNCTION_MAP
    THEN Returned(Failure("Unknown API"), None)
    ELSE CallBackend(api_name, oracle[api_name])

\* the "block" entry of an API bundle
ApiBlock(name) == IF name = "b1" THEN "map" ELSE None

\* lines 289-311 for a bundle that is not mixed
ExecuteSimple(cfg, name, oracle) ==
    IF name \notin DOMAIN cfg
    THEN Returned(Failure("Bundle not found"), None)
    ELSE IF cfg[name].type = "api_only"
    THEN LET r == _call_api(cfg[name].api, oracle)
         IN  IF r.raised THEN r ELSE Returned(r.result, ApiBlock(name))
    ELSE Returned(Failure("Unknown bundle type"), None)

\* lines 339-354: the API bundles of a mixed bundle, in order
MixedNames(bundle) ==
    (IF bundle.api_bundle = None THEN << >> ELSE << bundle.api_bundle >>)
    \o bundle.api_bundles

\* lines 321-358
RECURSIVE MixedResults(_, _, _)
MixedResults(cfg, names, oracle) ==
    IF names = << >> THEN [raised |-> FALSE, list |-> << >>]
    ELSE LET r == ExecuteSimple(cfg, Head(names), oracle)
             rest == MixedResults(cfg, Tail(names), oracle)
         IN  IF r.raised \/ rest.raised THEN [raised |-> TRUE, list |-> << >>]
             ELSE [raised |-> FALSE,
                   list |-> << [bundle |-> Head(names), data |-> r.result] >>
                            \o rest.list]

_execute_mixed_bundle(cfg, bundle, oracle) ==
    LET m == MixedResults(cfg, MixedNames(bundle), oracle)
    IN  IF m.raised THEN Escaped
        ELSE Returned(ApiResult(TRUE, "mixed", "", m.list), None)

\* lines 273-318
execute_api_bundle(cfg, name, oracle) ==
    IF name \in DOMAIN cfg /\ cfg[name].type = "mixed"
    THEN _execute_mixed_bundle(cfg, cfg[name], oracle)
    ELSE ExecuteSimple(cfg, name, oracle)

NoOracle == [a \in API_FUNCTION_MAP |-> "ok"]

\* the backend functions execute_api_bundle(name) calls
CalledApis(cfg, name) ==
    IF name \notin DOMAIN cfg THEN {}
    ELSE IF cfg[name].type = "api_only" THEN {cfg[name].api} \cap API_FUNCTION_MAP
    ELSE IF cfg[name].type = "mixed"
    THEN {cfg[n].api : n \in Range(MixedNames(cfg[name])) \cap ApiOnlyBundles}
         \cap API_FUNCTION_MAP
    ELSE {}

\* what the backend functions do in one iteration; only a function that is
\* called can raise
Oracles(cfg, name) ==
    {o \in [API_FUNCTION_MAP -> ApiOutcomes] :
        \A a \in API_FUNCTION_MAP : o[a] = "raise" => a \in CalledApis(cfg, name)}

ApiIdle ==
    /\ api_config = << >>
    /\ api_request = << >>
    /\ api_i = 0
    /\ api_oracle = NoOracle
    /\ api_results = << >>
    /\ api_pc = "idle"

\* line 375: results = {}
ApiInit ==
    /\ api_config \in ApiConfigs
    /\ api_request \in SeqsUpTo(ApiBundleNames, MaxApiRequest)
    /\ api_i = 1
    /\ api_oracle = NoOracle
    /\ api_results = << >>
    /\ api_pc = "loop"

\* lines 377-379: one iteration; an exception of execute_api_bundle is not
\* caught in execute_bundles
ApiStep ==
    /\ api_pc = "loop"
    /\ api_i <= Len(api_request)
    /\ \E oracle \in Oracles(api_config, api_request[api_i]) :
        LET name == api_request[api_i]
            r == execute_api_bundle(api_config, name, oracle)
        IN  /\ api_oracle' = oracle
            /\ IF r.raised
               THEN /\ api_pc' = "raised"
                    /\ UNCHANGED <<api_results, api_i>>
               ELSE /\ api_results' =
                          (name :> [result |-> r.result, block |-> r.block])
                          @@ api_results
                    /\ api_i' = api_i + 1
                    /\ api_pc' = "loop"
    /\ UNCHANGED <<api_config, api_request>>
    /\ UNCHANGED notApi

\* line 381
ApiReturn ==
    /\ api_pc = "loop"
    /\ api_i > Len(api_request)
    /\ api_pc' = "returned"
    /\ UNCHANGED <<api_config, api_request, api_i, api_oracle, api_results>>
    /\ UNCHANGED notApi

(***************************************************************************)
(* The HTTP callers with retries: api_utils.py, call_kcisa_api and         *)
(* call_kma_asos_daily_api.                                                *)
(***************************************************************************)
\* most rows an API response carries
MaxApiRows == 1

\* retries = 3
retries == 3

RetryFuncs == {"call_kcisa_api", "call_kma_asos_daily_api"}

\* what load_api_registry and the lookup of api_name do
LookupOutcomes == {"found", "absent", "raise"}

\* what requests.get / raise_for_status do in one attempt; Timeout,
\* ConnectionError and HTTPError are RequestExceptions, Other is not
HttpOutcomes == {"ok", "Timeout", "ConnectionError", "HTTPError", "Other"}

RequestExceptions == {"Timeout", "ConnectionError", "HTTPError"}

\* what parsing the body does
ParseOutcomes == {"parsed", "raise"}

\* 1.5 ** attempt, as a fraction
SleepTime(attempt) == [num |-> 3 ^ attempt, den |-> 2 ^ attempt]

ShouldSleepAlways(attempt) == TRUE

\* if attempt < retries - 1
ShouldSleep(attempt) == attempt < retries - 1

\* the returned dicts
RtFailure(msg, url) ==
    [success |-> FALSE, error |-> msg, data |-> << >>, count |-> 0, url |-> url]

RtSuccess(rows, url) ==
    [success |-> TRUE, error |-> None, data |-> rows, count |-> Len(rows),
     url |-> url]

\* no dict returned yet
NoRtResult ==
    [success |-> None, error |-> None, data |-> << >>, count |-> 0, url |-> None]

ApiRows(n) == [k \in 1..n |-> "item"]

\* resp.url if resp else request_url: a Response is true when its status is ok
UrlOf(r) == IF r = "ok_response" THEN "resp.url" ELSE "request_url"

\* the except clause that catches exception e of the loop body, or "outer"
CaughtInLoop(e) == e \in RequestExceptions

RtIdle ==
    /\ rt_func = None
    /\ rt_attempt = 0
    /\ rt_log = << >>
    /\ rt_sleeps = << >>
    /\ last_exc = None
    /\ resp = None
    /\ rt_result = NoRtResult
    /\ rt_pc = "idle"

RtInit ==
    /\ rt_func \in RetryFuncs
    /\ rt_attempt = 0
    /\ rt_log = << >>
    /\ rt_sleeps = << >>
    /\ last_exc = None
    /\ resp = None
    /\ rt_result = NoRtResult
    /\ rt_pc = "lookup"

\* registry = load_api_registry(); if api_name not in registry: return ...
RtLookup ==
    /\ rt_pc = "lookup"
    /\ \E o \in LookupOutcomes :
         CASE o = "found" ->
                /\ rt_pc' = "loop"
                /\ rt_result' = rt_result
           [] o = "absent" ->
                /\ rt_pc' = "returned"
                /\ rt_result' = RtFailure("not found", None)
           [] o = "raise" ->
                /\ rt_pc' = "returned"
                /\ rt_result' = RtFailure("unexpected", None)
    /\ UNCHANGED <<rt_func, rt_attempt, rt_log, rt_sleeps, last_exc, resp>>
    /\ UNCHANGED notRt

\* one iteration of "for attempt in range(retries)": the request, and the
\* except clause with its sleep
RtAttempt ==
    /\ rt_pc = "loop"
    /\ rt_attempt < retries
    /\ \E o \in HttpOutcomes :
         /\ rt_log' = Append(rt_log, o)
         /\ CASE o = "ok" ->
                  \* break
                  /\ resp' = "ok_response"
                  /\ UNCHANGED <<last_exc, rt_sleeps, rt_attempt, rt_result>>
                  /\ rt_pc' = "after"
              [] CaughtInLoop(o) ->
                  /\ resp' = IF o = "HTTPError" THEN "error_response" ELSE resp
                  /\ last_exc' = o
                  /\ rt_sleeps' = IF ShouldSleep(rt_attempt)
                                  THEN Append(rt_sleeps, SleepTime(rt_attempt))
                                  ELSE rt_sleeps
                  /\ rt_attempt' = rt_attempt + 1
                  /\ rt_pc' = IF rt_attempt + 1 < retries THEN "loop" ELSE "after"
                  /\ UNCHANGED rt_result
              [] OTHER ->
                  \* leaves the loop; caught by "except Exception" of the function
                  /\ rt_result' = RtFailure("unexpected", None)
                  /\ rt_pc' = "returned"
                  /\ UNCHANGED <<resp, last_exc, rt_sleeps, rt_attempt>>
    /\ UNCHANGED rt_func
    /\ UNCHANGED notRt

\* after the loop: "if last_exc: return {...}", else parse and return
RtAfter ==
    /\ rt_pc = "after"
    /\ IF last_exc # None
       THEN rt_result' = RtFailure("call failed", UrlOf(resp))
       ELSE \E p \in ParseOutcomes, n \in 0..MaxApiRows :
              rt_result' = IF p = "parsed"
                           THEN RtSuccess(ApiRows(n), "resp.url")
                           ELSE RtFailure("parse failed", None)
    /\ rt_pc' = "returned"
    /\ UNCHANGED <<rt_func, rt_attempt, rt_log, rt_sleeps, last_exc, resp>>
    /\ UNCHANGED notRt


(***************************************************************************)
(* analyse_agent.py: _assign_block_ids, _generate_paired_markdowns and the *)
(* steps 7-10 of analyse_agent_node.                                       *)
(***************************************************************************)
\* longest list of merged block drafts
MaxAnBlocks == 3
\* longest JSON array the text generator answers to the pairing request
MaxPaired == 2
\* most sections of the comprehensive analysis
MaxSections == 1

\* a block of the analyse stage; id and paired_with are << >> when the key
\* is absent, << j >> stands for "block_j"
AnBlock(type, id, paired_with, role) ==
    [type |-> type, id |-> id, paired_with |-> paired_with, role |-> role]

NoKey == << >>
BlockId(j) == << j >>

AnBlockTypes == {"chart", "table", "image", "map", "air_quality", "markdown"}

\* line 586
IdTypes == {"chart", "table", "image", "map", "air_quality"}

\* line 617
SKIP_PAIRED_MARKDOWN_TYPES == {"map", "air_quality", "markdown"}

AnInputs ==
    UNION {[1..k -> {AnBlock(t, NoKey, NoKey, "") : t \in AnBlockTypes}] :
           k \in 0..MaxAnBlocks}

\* a mutant: the counter is not advanced
NextCounterStuck(block_counter) == block_counter

\* line 588: block_counter += 1
NextCounter(block_counter) == block_counter + 1

\* lines 581-590: the loop, from block_counter on
RECURSIVE AssignFrom(_, _)
AssignFrom(bs, block_counter) ==
    IF bs = << >> THEN << >>
    ELSE IF Head(bs).type \in IdTypes
    THEN << [Head(bs) EXCEPT !.id = BlockId(block_counter)] >>
         \o AssignFrom(Tail(bs), NextCounter(block_counter))
    ELSE << Head(bs) >> \o AssignFrom(Tail(bs), block_counter)

\* lines 568-592
_assign_block_ids(bs) == AssignFrom(bs, 1)

\* lines 618-621: the blocks a companion is asked for
PairedDataBlocks(bs) ==
    SelectSeq(bs, LAMBDA b : b.id # NoKey
                             /\ b.type \notin SKIP_PAIRED_MARKDOWN_TYPES)

\* what the text generator answers: an exception, a text without a JSON
\* array, or a JSON array of markdown blocks with any paired_with
PairedTargets == {BlockId(j) : j \in 1..(MaxAnBlocks + 1)}

\* an item of the JSON array that is not an object, e.g. a string
NotADict == AnBlock("not_a_dict", NoKey, NoKey, "")

PairedItems ==
    {AnBlock("markdown", NoKey, t, "") : t \in PairedTargets} \cup {NotADict}

LlmAnswers ==
    {[kind |-> "raise", items |-> << >>], [kind |-> "nojson", items |-> << >>]}
    \cup {[kind |-> "array", items |-> a] : a \in SeqsUpTo(PairedItems, MaxPaired)}

NoLlm == [kind |-> "none", items |-> << >>]

\* lines 595-688
_generate_paired_markdowns(bs, answer) ==
    IF PairedDataBlocks(bs) = << >> THEN << >>
    ELSE IF answer.kind = "array" THEN answer.items
    ELSE << >>

\* lines 826-840: the comprehensive sections, as markdown blocks
ComprehensiveBlocks(n) ==
    [k \in 1..n |-> AnBlock("markdown", NoKey, NoKey, "comprehensive")]

\* lines 1231-1234: the fallback message
FallbackMessage == << AnBlock("markdown", NoKey, NoKey, "fallback") >>

AnIdle ==
    /\ an_input = << >>
    /\ an_blocks = << >>
    /\ paired_markdowns = << >>
    /\ an_llm = NoLlm
    /\ an_pc = "idle"

\* line 1193: the merged block drafts
AnInit ==
    /\ an_input \in AnInputs
    /\ an_blocks = an_input
    /\ paired_markdowns = << >>
    /\ an_llm = NoLlm
    /\ an_pc = "ids"

\* line 1196
AnAssignIds ==
    /\ an_pc = "ids"
    /\ an_blocks' = _assign_block_ids(an_blocks)
    /\ an_pc' = "pair"
    /\ UNCHANGED <<an_input, paired_markdowns, an_llm>>
    /\ UNCHANGED notAn

\* lines 1200-1206; the text generator is asked only when there is a block
\* to pair
AnPair ==
    /\ an_pc = "pair"
    /\ \E answer \in IF PairedDataBlocks(an_blocks) = << >>
                     THEN {NoLlm} ELSE LlmAnswers :
          /\ an_llm' = answer
          /\ paired_markdowns' = _generate_paired_markdowns(an_blocks, answer)
    /\ an_pc' = "extend"
    /\ UNCHANGED <<an_input, an_blocks>>
    /\ UNCHANGED notAn

\* lines 768-770 of _generate_comprehensive_analysis, outside its try
\* block: md.get raises AttributeError for an item that is not a dict
ComprehensiveRaises(data_blocks, paired) ==
    /\ data_blocks # << >>
    /\ \E k \in 1..Len(paired) : paired[k] = NotADict

\* a mutant: the fallback message is never made
NeedsFallbackNever(drafts) == FALSE

\* line 1229: if not block_drafts
NeedsFallback(drafts) == drafts = << >>

\* lines 1211-1234: the comprehensive analysis, the two extends, and the
\* fallback message for an empty list
AnExtend ==
    /\ an_pc = "extend"
    /\ LET data_blocks == SelectSeq(an_blocks, LAMBDA b : b.id # NoKey)
       IN  IF ComprehensiveRaises(data_blocks, paired_markdowns)
           THEN /\ an_pc' = "raised"
                /\ UNCHANGED an_blocks
           ELSE /\ \E n \in 0..MaxSections :
                     LET comprehensive_blocks ==
                             IF data_blocks = << >> THEN << >>
                             ELSE ComprehensiveBlocks(n)
                         all == an_blocks \o paired_markdowns
                                    \o comprehensive_blocks
                     IN  an_blocks' = IF NeedsFallback(all)
                                      THEN FallbackMessage ELSE all
                /\ an_pc' = "done"
    /\ UNCHANGED <<an_input, paired_markdowns, an_llm>>
    /\ UNCHANGED notAn


(***************************************************************************)
(* api_bundle_loader.py: _substitute_vars on a string value.  The string   *)
(* is a sequence of segments: literal text, the variable $org, or a        *)
(* reference $ref.a.b.                                                     *)
(***************************************************************************)
\* most segments of a value
MaxValueSegs == 2

Var(name) == [seg |-> "var", text |-> name, path |-> << >>]

Facility ==
    DictV([x |-> IntV(7), name |-> StrV("hall"), zero |-> IntV(0),
           none |-> NoneV])

SvContexts ==
    { [lat |-> IntV(7)],
      [org |-> StrV("Hall")],
      [org |-> StrV("Hall"), facility |-> Facility],
      [org |-> StrV("Hall"), facility |-> ListV(<< Facility >>)] }

SvRefPaths ==
    { << "facility" >>, << "facility", "x" >>, << "facility", "name" >>,
      << "facility", "zero" >>, << "facility", "none" >>,
      << "facility", "nope" >>, << "facility", "name", "deep" >>,
      << "org" >>, << "missing", "x" >> }

SvSegments ==
    {Lit("a"), Lit("7"), Var("org")} \cup {Ref(p) : p \in SvRefPaths}

SvValues == SeqsUpTo(SvSegments, MaxValueSegs)

\* the truth value of a Python value
Truthy(val) ==
    CASE val.t = "str" -> val.v # ""
      [] val.t = "int" -> val.v # 0
      [] val.t = "list" -> val.v # << >>
      [] val.t = "dict" -> DOMAIN val.v # {}
      [] OTHER -> FALSE

\* lines 144-150: the walk of replace_ref; the text the match is replaced by
RECURSIVE RefText(_, _)
RefText(val, parts) ==
    IF parts = << >> THEN (IF Truthy(val) THEN PyStr(val) ELSE "")
    ELSE IF val.t = "dict"
    THEN RefText(IF Head(parts) \in DOMAIN val.v THEN val.v[Head(parts)]
                 ELSE StrV(""),
                 Tail(parts))
    ELSE ""

\* lines 141-150
replace_ref(seg, context) == Lit(RefText(DictV(context), seg.path))

\* line 135: result.replace("$org", str(context.get("org", "")))
ReplaceOrg(seg, context) ==
    Lit(IF "org" \in DOMAIN context THEN PyStr(context["org"]) ELSE "")

\* line 155: the joined text is made of digits
IsNumberText(str) ==
    /\ \E k \in 1..Len(str) : str[k].text # ""
    /\ \A k \in 1..Len(str) : str[k].seg = "lit" /\ str[k].text \in DigitTexts \cup {""}

\* lines 131-161
_substitute_vars(value, context) ==
    LET result == [k \in 1..Len(value) |->
                      CASE value[k].seg = "var" -> ReplaceOrg(value[k], context)
                        [] value[k].seg = "ref" -> replace_ref(value[k], context)
                        [] OTHER -> value[k]]
    IN  [kind |-> IF IsNumberText(result) THEN "int" ELSE "str", str |-> result]

NoSvResult == [kind |-> "none", str |-> << >>]

SvIdle ==
    /\ sv_value = << >>
    /\ sv_context = << >>
    /\ sv_result = NoSvResult
    /\ sv_pc = "idle"

SvInit ==
    /\ sv_value \in SvValues
    /\ sv_context \in SvContexts
    /\ sv_result = NoSvResult
    /\ sv_pc = "call"

SvSubstitute ==
    /\ sv_pc = "call"
    /\ sv_result' = _substitute_vars(sv_value, sv_context)
    /\ sv_pc' = "done"
    /\ UNCHANGED <<sv_value, sv_context>>
    /\ UNCHANGED notSv


(***************************************************************************)
(* Two runs of execute_data_queries executing concurrently, one per        *)
(* organization.  results, errors and db are locals of the call (lines     *)
(* 241-244); every call of get_capstone_db_context makes a new session     *)
(* (context.py line 61).  Both runs use the same save_as keys.             *)
(***************************************************************************)
\* longest query plan of a concurrent run
MaxRunSteps == 2

Runs == {"r1", "r2"}

\* the organization a run works for: its rows carry its name
OrgOf(r) == IF r = "r1" THEN "org1" ELSE "org2"

CcRow(r) == DictV([f |-> StrV(OrgOf(r))])

\* what the database does with one query of run r
CcOutcomes(r) ==
    {[raises |-> TRUE, rows |-> << >>], [raises |-> FALSE, rows |-> << >>],
     [raises |-> FALSE, rows |-> << CcRow(r) >>]}

CcQueries ==
    {Query("search", Params("flat", << Lit("x") >>)),
     Query("search", Params("flat", << Ref(<< KeyOf(1), "f" >>) >>)),
     Query("search", Params("flat", << Ref(<< KeyOf(2), "f" >>) >>)),
     Query("aggregate", Params("flat", << Lit("x") >>))}

\* a session object: the run that made it, its state, the runs that closed it
Session(owner, state, closers) ==
    [owner |-> owner, state |-> state, closers |-> closers]

\* the locals of a run; db is the position of its session in cc_sessions,
\* used the sessions its queries went through
RunLocals(pc, n) ==
    [pc |-> pc, n |-> n, i |-> 0, query |-> NoQuery, resolved |-> NoResolved,
     results |-> << >>, errors |-> << >>, db |-> 0, used |-> {}]

\* a mutant: every run reads the context of the first run
ContextOfShared(runs, r) == runs["r1"].results

\* line 252: _resolve_params(params, results): results is the call's local
ContextOf(runs, r) == runs[r].results

CcIdle ==
    /\ cc_run = [r \in Runs |-> RunLocals("idle", 0)]
    /\ cc_sessions = << >>

CcInit ==
    /\ cc_run \in [Runs -> {RunLocals("start", n) : n \in 0..MaxRunSteps}]
    /\ cc_sessions = << >>

\* line 244 and context.py line 61, by one of the runs
CcEnter ==
    \E r \in Runs :
        /\ cc_run[r].pc = "start"
        /\ cc_sessions' = Append(cc_sessions, Session(r, "open", << >>))
        /\ cc_run' = [cc_run EXCEPT ![r].pc = "loop", ![r].i = 1,
                                    ![r].db = Len(cc_sessions) + 1]
        /\ UNCHANGED notCc

\* lines 247-295: one iteration of the loop of one of the runs
CcStep ==
    \E r \in Runs :
        /\ cc_run[r].pc = "loop"
        /\ cc_run[r].i <= cc_run[r].n
        /\ \E q \in CcQueries :
           \E outcome \in IF ReachesBackend(q) THEN CcOutcomes(r) ELSE {NoBackend} :
             LET me == cc_run[r]
                 save_as == KeyOf(me.i)
                 rp == _resolve_params(q.params, ContextOf(cc_run, r))
                 t == TryBlock(q.action, rp, cc_sessions[me.db].state, outcome)
             IN  cc_run' = [cc_run EXCEPT
                   ![r].query = [action |-> q.action, save_as |-> save_as,
                                 params |-> q.params],
                   ![r].resolved = rp,
                   ![r].results = IF t.raised THEN StoreOnError(@, save_as)
                                  ELSE (save_as :> ListV(t.data)) @@ @,
                   ![r].errors = IF t.raised
                                 THEN Append(@, [step |-> me.i, exc |-> t.exc,
                                                 run |-> r])
                                 ELSE @,
                   ![r].used = IF t.called THEN @ \cup {me.db} ELSE @,
                   ![r].i = @ + 1]
        /\ UNCHANGED cc_sessions
        /\ UNCHANGED notCc

\* lines 248-252 on a query whose params is not a dict: the exception leaves
\* the with block of the run; context.py lines 64-68
CcStepEscapes ==
    \E r \in Runs :
        /\ cc_run[r].pc = "loop"
        /\ cc_run[r].i <= cc_run[r].n
        /\ cc_sessions' = [cc_sessions EXCEPT
                             ![cc_run[r].db].state = "closed",
                             ![cc_run[r].db].closers = Append(@, r)]
        /\ cc_run' = [cc_run EXCEPT ![r].pc = "raised"]
        /\ UNCHANGED notCc

\* the loop of a run is over: context.py line 68, then lines 307-324
CcLeave ==
    \E r \in Runs :
        /\ cc_run[r].pc = "loop"
        /\ cc_run[r].i > cc_run[r].n
        /\ cc_sessions' = [cc_sessions EXCEPT
                             ![cc_run[r].db].state = "closed",
                             ![cc_run[r].db].closers = Append(@, r)]
        /\ cc_run' = [cc_run EXCEPT ![r].pc = "returned"]
        /\ UNCHANGED notCc


(***************************************************************************)
(* The configuration cache: _load_config and reload_config of              *)
(* query_bundle_loader.py (lines 17-35) and api_bundle_loader.py (lines    *)
(* 29-53).  The module global holds None or the value json.load returned.  *)
(* Threads execute the functions statement by statement; every statement   *)
(* that reads or writes the global is a step of its own.                   *)
(***************************************************************************)
Threads == {"t1", "t2"}

\* two contents of the config file that are JSON objects
Configs == {"cfgA", "cfgB"}

\* valid JSON that is not an object, e.g. [] : json.load returns a list
NotAnObject == "list"

\* the config file: an object, a non-object, no file, or text that is not JSON
SourceStates == Configs \cup {NotAnObject, "missing", "invalid"}

Loaders == {"query", "api"}

\* open(config_path) and json.load(f): the value, or the exception raised
JsonLoad(source) ==
    CASE source = "missing" -> [raised |-> TRUE, v |-> "FileNotFoundError"]
      [] source = "invalid" -> [raised |-> TRUE, v |-> "JSONDecodeError"]
      [] OTHER -> [raised |-> FALSE, v |-> source]

ParseErrors == {"FileNotFoundError", "JSONDecodeError"}

\* the statements after the assignment that evaluate <global>.get(...):
\* line 27 of query_bundle_loader.py, lines 43 and 44 of api_bundle_loader.py
LogReads(loader) == IF loader = "query" THEN 1 ELSE 2

\* <value>.get exists only on a dict
HasGet(v) == v \in Configs

NoCall ==
    [op |-> "none", pc |-> "idle", entry |-> None, loaded |-> None,
     parsed |-> 0, seen |-> 0, ret |-> "NoReturn"]

CfIdle ==
    /\ cf_loader = "query"
    /\ cf_source = "cfgA"
    /\ cf_bad = FALSE
    /\ _BUNDLES_CONFIG = None
    /\ cf_call = [t \in Threads |-> NoCall]

\* the module is imported: the global is None (line 17); the file is in any state
CfInit ==
    /\ cf_loader \in Loaders
    /\ cf_source \in SourceStates
    /\ cf_bad = (cf_source \notin Configs)
    /\ _BUNDLES_CONFIG = None
    /\ cf_call = [t \in Threads |-> NoCall]

\* somebody rewrites, removes or restores the config file
CfEdit ==
    /\ \E s \in SourceStates \ {cf_source} :
          /\ cf_source' = s
          /\ cf_bad' = (cf_bad \/ s \notin Configs)
    /\ UNCHANGED <<cf_loader, _BUNDLES_CONFIG, cf_call>>
    /\ UNCHANGED notCf

\* thread t calls _load_config() or reload_config()
CfCall(t, op) ==
    /\ cf_call[t].pc \in {"idle", "done"}
    /\ cf_call' = [cf_call EXCEPT ![t] =
          [op |-> op, pc |-> IF op = "reload" THEN "clear" ELSE "check",
           entry |-> _BUNDLES_CONFIG, loaded |-> None, parsed |-> 0,
           seen |-> 0, ret |-> "NoReturn"]]
    /\ UNCHANGED <<cf_loader, cf_source, cf_bad, _BUNDLES_CONFIG>>
    /\ UNCHANGED notCf

\* reload_config, line 34 (52): _BUNDLES_CONFIG = None, then _load_config()
CfClear(t) ==
    /\ cf_call[t].pc = "clear"
    /\ _BUNDLES_CONFIG' = None
    /\ cf_call' = [cf_call EXCEPT ![t].pc = "check"]
    /\ UNCHANGED <<cf_loader, cf_source, cf_bad>>
    /\ UNCHANGED notCf

\* line 23 (39): if _BUNDLES_CONFIG is None
IsUnset(v) == v = None

CfCheck(t) ==
    /\ cf_call[t].pc = "check"
    /\ cf_call' = [cf_call EXCEPT ![t].pc =
          IF IsUnset(_BUNDLES_CONFIG) THEN "open" ELSE "return"]
    /\ UNCHANGED <<cf_loader, cf_source, cf_bad, _BUNDLES_CONFIG>>
    /\ UNCHANGED notCf

\* lines 24-26 (40-42), right-hand side: open the file and json.load it
CfParse(t) ==
    /\ cf_call[t].pc = "open"
    /\ LET r == JsonLoad(cf_source)
       IN  cf_call' = [cf_call EXCEPT ![t] =
              IF r.raised
              THEN [@ EXCEPT !.pc = "done", !.parsed = @ + 1, !.ret = r.v]
              ELSE [@ EXCEPT !.pc = "assign", !.parsed = @ + 1,
                             !.loaded = r.v]]
    /\ UNCHANGED <<cf_loader, cf_source, cf_bad, _BUNDLES_CONFIG>>
    /\ UNCHANGED notCf

\* line 26 (42), the assignment to the global
CfAssign(t) ==
    /\ cf_call[t].pc = "assign"
    /\ _BUNDLES_CONFIG' = cf_call[t].loaded
    /\ cf_call' = [cf_call EXCEPT ![t].pc = "log"]
    /\ UNCHANGED <<cf_loader, cf_source, cf_bad>>
    /\ UNCHANGED notCf

\* line 27 (43, 44): len(_BUNDLES_CONFIG.get(...)) reads the global again;
\* None and a list have no .get: AttributeError leaves the function
CfLog(t) ==
    /\ cf_call[t].pc = "log"
    /\ cf_call' = [cf_call EXCEPT ![t] =
          IF ~HasGet(_BUNDLES_CONFIG)
          THEN [@ EXCEPT !.pc = "done", !.ret = "AttributeError"]
          ELSE [@ EXCEPT !.seen = @ + 1,
                         !.pc = IF cf_call[t].seen + 1 = LogReads(cf_loader)
                                THEN "return" ELSE "log"]]
    /\ UNCHANGED <<cf_loader, cf_source, cf_bad, _BUNDLES_CONFIG>>
    /\ UNCHANGED notCf

\* line 28 (46): return _BUNDLES_CONFIG, the global as it is now
CfReturn(t) ==
    /\ cf_call[t].pc = "return"
    /\ cf_call' = [cf_call EXCEPT ![t] =
          [@ EXCEPT !.pc = "done", !.ret = _BUNDLES_CONFIG]]
    /\ UNCHANGED <<cf_loader, cf_source, cf_bad, _BUNDLES_CONFIG>>
    /\ UNCHANGED notCf

\* the statements of a call in flight
CfStep(t) ==
    \/ CfClear(t)
    \/ CfCheck(t)
    \/ CfParse(t)
    \/ CfAssign(t)
    \/ CfLog(t)
    \/ CfReturn(t)

CfDone(t) == cf_call[t].pc = "done"

CfRaised(t) == CfDone(t) /\ cf_call[t].ret \in ParseErrors \cup {"AttributeError"}


(***************************************************************************)
(* query_executor.py: _calculate_demographics_stats, lines 106-185.        *)
(* A column is named by its provider, age group and gender:                *)
(*   provider "A": m_<age>, f_<age>              (lines 126-127)           *)
(*   provider "B": mrcno_pct_<age>_male, ..._female   (lines 137-138)      *)
(*   provider "C": persona_pct_<age>_male, ..._female (lines 148-149)      *)
(***************************************************************************)
\* most records of the argument
MaxRecords == 2

Column(provider, age, gender) ==
    [provider |-> provider, age |-> age, gender |-> gender]

\* lines 124, 135, 146
age_groups == << "20", "30", "40", "50", "60", "70" >>

\* the columns tested at lines 122, 133 and 144
Signature(provider) == Column(provider, "20", "male")

\* the columns a record of the input may hold
DmColumns ==
    {Signature("A"), Column("A", "20", "female"), Signature("B"),
     Signature("C"), Column("C", "30", "female")}

\* a cell: a number, NULL, or text that is not a number
DmValues == {IntV(0), IntV(1), NoneV, StrV("x")}

DmRows == UNION {[cols -> DmValues] : cols \in SUBSET DmColumns}

\* the records after the first one
LaterRows ==
    { << >>, (Signature("A") :> IntV(1)) }

RECURSIVE LaterLists(_)
LaterLists(n) ==
    IF n = 0 THEN {<< >>}
    ELSE {<< >>} \cup {<< r >> \o l : r \in LaterRows, l \in LaterLists(n - 1)}

DmInputs ==
    {<< >>} \cup {<< r >> \o l : r \in DmRows, l \in LaterLists(MaxRecords - 1)}

\* float(data.get(col, 0) or 0): [raised, v]
ToFloat(data, col) ==
    IF col \notin DOMAIN data THEN [raised |-> FALSE, v |-> 0]
    ELSE LET val == data[col]
         IN  CASE val.t = "none" -> [raised |-> FALSE, v |-> 0]
               [] val.t = "int" -> [raised |-> FALSE, v |-> val.v]
               [] val.t = "str" ->
                    IF val.v = "" THEN [raised |-> FALSE, v |-> 0]
                    ELSE [raised |-> TRUE, v |-> 0]     \* ValueError

\* lines 137-138, 148-149: the shares of providers B and C are times 100
Scale(provider) == IF provider = "A" THEN 1 ELSE 100

\* mutant of Detect: provider C is tested first
DetectReversed(data) ==
    IF Signature("C") \in DOMAIN data THEN "C"
    ELSE IF Signature("B") \in DOMAIN data THEN "B"
    ELSE IF Signature("A") \in DOMAIN data THEN "A"
    ELSE "unrecognized"

\* the if / elif / elif / else of lines 122, 133, 144, 154
Detect(data) ==
    IF Signature("A") \in DOMAIN data THEN "A"
    ELSE IF Signature("B") \in DOMAIN data THEN "B"
    ELSE IF Signature("C") \in DOMAIN data THEN "C"
    ELSE "unrecognized"

\* the values are whole numbers: round(x, 1) leaves them as they are
RECURSIVE SumUpTo(_, _)
SumUpTo(f, n) == IF n = 0 THEN 0 ELSE f[n] + SumUpTo(f, n - 1)

\* max(age_stats, key=age_stats.get): the first key with the largest value
MaxAge(age_stats) ==
    LET best == CHOOSE k \in 1..Len(age_stats) :
                   /\ \A j \in 1..Len(age_stats) : age_stats[j] <= age_stats[k]
                   /\ \A j \in 1..(k - 1) : age_stats[j] < age_stats[k]
    IN  age_groups[best]

DmNoData(detected, summary) ==
    [raised |-> FALSE, has_data |-> FALSE, detected |-> detected,
     summary |-> summary]

\* line 114: data = demographics[0]
SampleRecord(demographics) == demographics[1]

_calculate_demographics_stats(demographics) ==
    IF demographics = << >>
    THEN DmNoData("none", "no data")                       \* lines 108-112
    ELSE
    LET data == SampleRecord(demographics)
        detected == Detect(data)
    IN  IF detected = "unrecognized"
        THEN DmNoData(detected, "unrecognized format")     \* lines 154-159
        ELSE
        LET male == [k \in 1..Len(age_groups) |->
                        ToFloat(data, Column(detected, age_groups[k], "male"))]
            female == [k \in 1..Len(age_groups) |->
                        ToFloat(data, Column(detected, age_groups[k], "female"))]
            s == Scale(detected)
            male_val == [k \in 1..Len(age_groups) |-> male[k].v * s]
            female_val == [k \in 1..Len(age_groups) |-> female[k].v * s]
            age_stats == [k \in 1..Len(age_groups) |->
                             male_val[k] + female_val[k]]
            male_pct == SumUpTo(male_val, Len(age_groups))
            female_pct == SumUpTo(female_val, Len(age_groups))
        IN  IF \E k \in 1..Len(age_groups) : male[k].raised \/ female[k].raised
            THEN [raised |-> TRUE, has_data |-> FALSE, detected |-> detected,
                  summary |-> "ValueError"]
            ELSE IF \A k \in 1..Len(age_groups) : age_stats[k] = 0
            THEN DmNoData(detected, "empty")               \* lines 161-165
            ELSE [raised |-> FALSE, has_data |-> TRUE, detected |-> detected,
                  summary |-> MaxAge(age_stats),
                  age_distribution |-> age_stats,
                  gender_distribution |->
                      [male |-> male_pct, female |-> female_pct],
                  female_first |-> female_pct > male_pct]  \* lines 173-176

NoDmResult == DmNoData("", "")

DmIdle ==
    /\ dm_input = << >>
    /\ dm_result = NoDmResult
    /\ dm_pc = "idle"

DmInit ==
    /\ dm_input \in DmInputs
    /\ dm_result = NoDmResult
    /\ dm_pc = "call"

DmCalculate ==
    /\ dm_pc = "call"
    /\ dm_result' = _calculate_demographics_stats(dm_input)
    /\ dm_pc' = "done"
    /\ UNCHANGED dm_input
    /\ UNCHANGED notDm


(***************************************************************************)
(* The preset lookups: get_preset_for_org and get_bundles_for_preset of    *)
(* query_bundle_loader.py (lines 38-65) and api_bundle_loader.py (lines    *)
(* 60-86).  A string is a sequence of characters; the org-to-preset        *)
(* mapping is the sequence of the (keyword, preset) items of the dict, in  *)
(* the order of the file.                                                  *)
(***************************************************************************)
\* longest organization name
MaxOrgLen == 3
\* most entries of the org-to-preset mapping
MaxMapping == 2

Chars == {"a", "b"}

OrgNames == SeqsUpTo(Chars, MaxOrgLen)

Keywords == { << >>, << "a" >>, << "b" >>, << "a", "b" >> }

\* the default presets of lines 51 and 62 (query) and 72 and 83 (api)
DefaultPreset(loader) == IF loader = "query" THEN "basic" ELSE "quick"

MappedPresets == {"p1", "p2"}

\* the key of the mapping, lines 41 and 63
MappingKey(loader) ==
    IF loader = "query" THEN "org_preset_mapping" ELSE "org_api_preset_mapping"

\* a dict has each key once
Mappings ==
    {m \in SeqsUpTo([keyword : Keywords, preset : MappedPresets], MaxMapping) :
        \A i, j \in 1..Len(m) : i # j => m[i].keyword # m[j].keyword}

\* a preset: with or without the key "bundles"
PresetDefs(bundle) ==
    { << >>, [bundles |-> << >>], [bundles |-> << bundle >>] }

\* the "presets" dict: the preset p1 and the default preset, each optional
PresetDicts(loader) ==
    LET d == DefaultPreset(loader)
    IN  { << >> }
        \cup {("p1" :> p) : p \in PresetDefs("A")}
        \cup {(d :> q) : q \in PresetDefs("B")}
        \cup {("p1" :> p) @@ (d :> q) :
                 p \in PresetDefs("A"), q \in PresetDefs("B")}

PsConfigs(loader) ==
    { << >> }
    \cup {(MappingKey(loader) :> m) : m \in Mappings}
    \cup {("presets" :> ps) : ps \in PresetDicts(loader)}
    \cup {(MappingKey(loader) :> m) @@ ("presets" :> ps) :
             m \in Mappings, ps \in PresetDicts(loader)}

\* mutant of GetOr: d[key] instead of d.get(key, default)
DictSubscript(d, key, default) ==
    [raised |-> key \notin DOMAIN d,
     v |-> IF key \in DOMAIN d THEN d[key] ELSE default]

\* d.get(key, default): [raised, v]; it never raises
GetOr(d, key, default) ==
    [raised |-> FALSE, v |-> IF key \in DOMAIN d THEN d[key] ELSE default]

\* keyword in org_name
IsSubstring(keyword, name) ==
    \E i \in 0..(Len(name) - Len(keyword)) :
        SubSeq(name, i + 1, i + Len(keyword)) = keyword

\* mutant of FirstMatch: the loop goes on after a match
RECURSIVE LastMatch(_, _, _, _)
LastMatch(mapping, name, i, default) ==
    IF i > Len(mapping) THEN default
    ELSE LET rest == LastMatch(mapping, name, i + 1, default)
         IN  IF IsSubstring(mapping[i].keyword, name) /\ rest = default
             THEN mapping[i].preset
             ELSE rest

\* lines 44-51: the loop over mapping.items() from item i on
RECURSIVE FirstMatch(_, _, _, _)
FirstMatch(mapping, name, i, default) ==
    IF i > Len(mapping) THEN default
    ELSE IF IsSubstring(mapping[i].keyword, name) THEN mapping[i].preset
    ELSE FirstMatch(mapping, name, i + 1, default)

get_preset_for_org(config, loader, name) ==
    LET mapping == GetOr(config, MappingKey(loader), << >>).v
    IN  FirstMatch(mapping, name, 1, DefaultPreset(loader))

PsRaised(exc) == [raised |-> TRUE, exc |-> exc, bundles |-> << >>]
PsReturned(bundles) == [raised |-> FALSE, exc |-> "", bundles |-> bundles]

\* line 60 (81): if not bundles
UseDefault(bundles) == bundles = << >>

get_bundles_for_preset(config, loader, name) ==
    LET presets == GetOr(config, "presets", << >>).v
        preset == GetOr(presets, name, << >>)                 \* line 57
    IN  IF preset.raised THEN PsRaised("KeyError")
        ELSE
        LET bundles == GetOr(preset.v, "bundles", << >>)      \* line 58
        IN  IF bundles.raised THEN PsRaised("KeyError")
            ELSE IF ~UseDefault(bundles.v) THEN PsReturned(bundles.v)
            ELSE
            LET default_preset ==                             \* line 62
                    GetOr(presets, DefaultPreset(loader), << >>)
            IN  IF default_preset.raised THEN PsRaised("KeyError")
                ELSE
                LET fallback ==                               \* line 63
                        GetOr(default_preset.v, "bundles", << >>)
                IN  IF fallback.raised THEN PsRaised("KeyError")
                    ELSE PsReturned(fallback.v)

NoPsResult == PsReturned(<< >>)

PsIdle ==
    /\ ps_loader = "query"
    /\ ps_config = << >>
    /\ org_name = << >>
    /\ ps_preset = ""
    /\ preset_name = ""
    /\ ps_bundles = NoPsResult
    /\ ps_pc = "idle"

PsInit ==
    /\ ps_loader \in Loaders
    /\ ps_config \in PsConfigs(ps_loader)
    /\ org_name \in OrgNames
    /\ ps_preset = ""
    /\ preset_name = ""
    /\ ps_bundles = NoPsResult
    /\ ps_pc = "preset"

PsPresetFor ==
    /\ ps_pc = "preset"
    /\ ps_preset' = get_preset_for_org(ps_config, ps_loader, org_name)
    /\ ps_pc' = "bundles"
    /\ UNCHANGED <<ps_loader, ps_config, org_name, preset_name, ps_bundles>>
    /\ UNCHANGED notPs

\* the caller asks for the bundles of the preset found, or of a name given
\* by the request
PsBundlesFor ==
    /\ ps_pc = "bundles"
    /\ \E name \in {ps_preset, "nope"} :
          /\ preset_name' = name
          /\ ps_bundles' = get_bundles_for_preset(ps_config, ps_loader, name)
    /\ ps_pc' = "done"
    /\ UNCHANGED <<ps_loader, ps_config, org_name, ps_preset>>
    /\ UNCHANGED notPs


(***************************************************************************)
(* compose_agent.py: compose_report_node, lines 352-465.  The decision-    *)
(* maker is llm_with_tools.invoke: it raises, or answers with a list of    *)
(* tool calls.  The block list, the composed blocks and the fallback       *)
(* layout are those of the layout composer above.                          *)
(***************************************************************************)
\* line 390
max_iterations == 5
\* longest block list given to the node
MaxComposeBlocks == 2
\* most tool calls in one response
MaxToolCalls == 2

\* a row descriptor whose "indices" is not iterable, e.g. null: line 210
\* raises TypeError
BadRowItem == [kind |-> "bad_row", idx |-> 0, indices |-> << >>]

\* the args of a finalize_report_layout call: layout_sequence is a list, is
\* absent, or is null
ListArg(seq) == [kind |-> "list", seq |-> seq]
AbsentArg == [kind |-> "absent", seq |-> << >>]
NullArg == [kind |-> "null", seq |-> << >>]
NoArg == [kind |-> "none", seq |-> << >>]

FinalizeArgs ==
    {ListArg(<< IntItem(0) >>),
     ListArg(<< IntItem(1), IntItem(0) >>),
     ListArg(<< RowItem(<< 0, 1 >>) >>),
     ListArg(<< BadRowItem >>),
     AbsentArg, NullArg}

ToolCall(name, arg) == [name |-> name, arg |-> arg]

ToolCalls ==
    {ToolCall("finalize_report_layout", a) : a \in FinalizeArgs}
    \cup {ToolCall("create_row_layout", NoArg), ToolCall("unknown", NoArg)}

\* a response: the invoke raised, or the tool_calls of the message
Responses ==
    {[raised |-> TRUE, tool_calls |-> << >>]}
    \cup {[raised |-> FALSE, tool_calls |-> tc] :
             tc \in SeqsUpTo(ToolCalls, MaxToolCalls)}

NoResponse == [raised |-> FALSE, tool_calls |-> << >>]

\* lines 408-425: the loop over the tool calls stops at the first
\* finalize_report_layout call; 0 when there is none
FinalizeAt(tool_calls) ==
    LET at == {k \in 1..Len(tool_calls) :
                  tool_calls[k].name = "finalize_report_layout"}
    IN  IF at = {} THEN 0 ELSE CHOOSE k \in at : \A j \in at : k <= j

\* line 417: tool_args.get("layout_sequence", []) is None only for null
ArgIsNone(arg) == arg.kind = "null"

\* _apply_layout_sequence raises: an item's indices cannot be iterated
ApplyRaises(seq) == \E k \in 1..Len(seq) : seq[k] = BadRowItem

NoFinalize == [got |-> FALSE, arg |-> NoArg]

CpIdle ==
    /\ cp_invocations = 0
    /\ cp_response = NoResponse
    /\ cp_is_set = FALSE
    /\ cp_first = NoFinalize
    /\ cp_raised = FALSE

\* lines 353, 389-390; layout_sequence = None is cp_is_set = FALSE, and the
\* variable holds the empty list until it is set
CpInit ==
    /\ block_drafts \in BlockLists(MaxComposeBlocks)
    /\ layout_sequence = << >>
    /\ blocks = << >>
    /\ fb_i = 0
    /\ lay_path = "none"
    /\ lay_pc = "compose"
    /\ CpIdle

\* lines 368-392: there are blocks; the loop is entered
CpEnter ==
    /\ lay_pc = "compose"
    /\ block_drafts # << >>
    /\ lay_pc' = "llm"
    /\ UNCHANGED <<block_drafts, layout_sequence, blocks, fb_i, lay_path>>
    /\ UNCHANGED cpVars
    /\ UNCHANGED notLayCp

\* lines 393-442: one iteration of the for loop
CpInvoke ==
    /\ lay_pc = "llm"
    /\ cp_invocations < max_iterations
    /\ \E response \in Responses :
         LET at == FinalizeAt(response.tool_calls)
             arg == IF at = 0 THEN NoArg ELSE response.tool_calls[at].arg
             is_set == at # 0 /\ ~ArgIsNone(arg)
         IN  /\ cp_response' = response
             /\ cp_invocations' = cp_invocations + 1
             /\ cp_raised' = response.raised
             /\ cp_first' = IF ~cp_first.got /\ at # 0
                            THEN [got |-> TRUE, arg |-> arg] ELSE cp_first
             /\ cp_is_set' = is_set
             /\ layout_sequence' = IF is_set THEN arg.seq ELSE layout_sequence
             /\ IF response.raised
                THEN \* line 452-454: _fallback_layout
                     /\ lay_pc' = "fallback"
                     /\ lay_path' = "fallback"
                ELSE /\ lay_pc' = IF \/ response.tool_calls = << >>  \* line 405
                                     \/ is_set                       \* line 442
                                     \/ cp_invocations + 1 = max_iterations
                                  THEN "apply" ELSE "llm"
                     /\ UNCHANGED lay_path
    /\ UNCHANGED <<block_drafts, blocks, fb_i>>
    /\ UNCHANGED notLayCp

\* lines 445-454
CpApply ==
    /\ lay_pc = "apply"
    /\ IF cp_is_set /\ ~ApplyRaises(layout_sequence)
       THEN /\ blocks' = _apply_layout_sequence(block_drafts, layout_sequence)
            /\ lay_path' = "external"
            /\ lay_pc' = "done"
            /\ UNCHANGED cp_raised
       ELSE /\ blocks' = << >>
            /\ lay_path' = "fallback"
            /\ lay_pc' = "fallback"
            /\ cp_raised' = cp_is_set
    /\ UNCHANGED <<block_drafts, layout_sequence, fb_i>>
    /\ UNCHANGED <<cp_invocations, cp_response, cp_is_set, cp_first>>
    /\ UNCHANGED notLayCp


(***************************************************************************)
(* The requires graph.                                                     *)
(***************************************************************************)
RECURSIVE ReachFrom(_, _, _)
ReachFrom(req, S, n) ==
    IF n = 0 THEN S
    ELSE ReachFrom(req,
                   S \cup UNION {Range(req[x]) \cap KnownBundles : x \in S},
                   n - 1)

\* the known bundles a requires, directly or transitively
Descendants(req, a) ==
    ReachFrom(req, Range(req[a]) \cap KnownBundles, Cardinality(KnownBundles))

Acyclic(req) == \A a \in KnownBundles : a \notin Descendants(req, a)

\* a is on a requires cycle or requires a bundle that is
InvolvedInCycle(req, a) ==
    \E c \in Descendants(req, a) \cup {a} : c \in Descendants(req, c)

QueryPositions(b) == {k \in 1..Len(all_queries) : all_queries[k].bundle = b}

QueriesOfBundle(b) == SelectSeq(all_queries, LAMBDA q : q.bundle = b)

\* resolve_bundles run to its return on a request list
RECURSIVE ResolveList(_, _, _)
ResolveList(req, names, st) ==
    IF names = << >> \/ st.raised THEN st
    ELSE ResolveList(req, Tail(names), _load_bundle(req, Head(names), st, 1))

EmptyRbState == RbState(<< >>, << >>, << >>, {}, FALSE)

\* C1: if a known bundle b requires a known bundle a (acyclic graph), then for
\* every request list containing b, wherever a stands in it or not at all,
\* all of a's queries precede all of b's in the returned list; requesting
\* only b returns a's queries followed by b's.
C1_DependencyOrdering ==
    (rb_pc = "returned" /\ Acyclic(rb_requires)) =>
        /\ \A b \in Range(bundle_names) \cap KnownBundles :
             \A a \in Range(rb_requires[b]) \cap KnownBundles :
                /\ QueryPositions(a) # {}
                /\ QueryPositions(b) # {}
                /\ \A i \in QueryPositions(a), j \in QueryPositions(b) : i < j
        /\ \A a, b \in KnownBundles :
             (bundle_names = << b >> /\ rb_requires[b] = << a >>
                /\ rb_requires[a] = << >>)
             => all_queries = ParseAll(a, BundleQueries(a))
                                \o ParseAll(b, BundleQueries(b))

\* C1 witness: b was requested before its requirement a, and both are loaded
C1_Witness ==
    /\ rb_pc = "returned"
    /\ Acyclic(rb_requires)
    /\ bundle_names = << "B", "A" >>
    /\ rb_requires["B"] = << "A" >>
    /\ {"A", "B"} \subseteq loaded_bundles

\* C2: on an acyclic graph every known bundle is processed at most once:
\* no query occurs twice in the output, a loaded bundle's queries occur
\* exactly once, and resolving [n, n] returns what resolving [n] returns.
C2_IdempotentExpansion ==
    (rb_pc = "returned" /\ Acyclic(rb_requires)) =>
        /\ \A i, j \in 1..Len(all_queries) :
              all_queries[i] = all_queries[j] => i = j
        /\ \A b \in loaded_bundles :
              QueriesOfBundle(b) = ParseAll(b, BundleQueries(b))
        /\ \A b \in KnownBundles \ loaded_bundles : QueryPositions(b) = {}
        /\ (Len(bundle_names) = 2 /\ bundle_names[1] = bundle_names[2]) =>
              LET once == ResolveList(rb_requires, << bundle_names[1] >>,
                                      EmptyRbState)
              IN  /\ all_queries = once.queries
                  /\ all_stats = once.stats
                  /\ block_configs = once.blocks

\* C2 witness: two requested bundles require the same bundle (a diamond)
C2_Witness ==
    /\ rb_pc = "returned"
    /\ bundle_names = << "A", "B" >>
    /\ rb_requires["A"] = << "C" >>
    /\ rb_requires["B"] = << "C" >>
    /\ rb_requires["C"] = << >>
    /\ loaded_bundles = {"A", "B", "C"}

\* C2 witness for the repeated request is part of the same run family
C2_WitnessRepeat ==
    /\ rb_pc = "returned"
    /\ bundle_names = << "A", "A" >>
    /\ "A" \in loaded_bundles

\* C8: resolve_bundles terminates with a return on every configuration,
\* also a cyclic one; a cycle fails only the bundles involved in it, every
\* other requested known bundle is resolved and returned.
C8_CycleFailsOnlyItsBundle ==
    /\ rb_pc # "raised"
    /\ rb_pc = "returned" =>
          \A b \in Range(bundle_names) \cap KnownBundles :
              ~InvolvedInCycle(rb_requires, b) => b \in loaded_bundles

\* the state the cyclic configuration ends in: RecursionError left the call
C8_Raised ==
    /\ rb_pc = "raised"
    /\ ~Acyclic(rb_requires)


(***************************************************************************)
(* Claims on execute_data_queries.                                         *)
(***************************************************************************)
\* the steps executed so far
Executed == 1..Len(backend_log)

ErrorsOfStep(i) == {k \in 1..Len(errors) : errors[k].step = i}

\* C3: a backend exception on step i gives exactly one entry in errors and
\* the empty result under save_as_i; the other steps' results are stored and
\* every later step is executed.
C3_FailureIsolation ==
    /\ \A i \in Executed :
          backend_log[i] = "raised" =>
              /\ Cardinality(ErrorsOfStep(i)) = 1
              /\ results[KeyOf(i)] = ListV(<< >>)
    /\ \A i \in Executed : KeyOf(i) \in DOMAIN results
    /\ ex_pc = "returned" => Len(backend_log) = ex_n

\* the state in which C3 fails: the database raised in a search step, the
\* step left no entry in errors and a one-row result
C3_SwallowedBackendError ==
    /\ ex_pc = "returned"
    /\ \E i \in Executed :
          /\ backend_log[i] = "raised"
          /\ ErrorsOfStep(i) = {}
          /\ results[KeyOf(i)] = ListV(<< ErrorRow("query error") >>)

\* an exception that reaches the except clause of line 291 is isolated
C3_HandledExceptionIsolated ==
    /\ \A i \in Executed : Cardinality(ErrorsOfStep(i)) <= 1
    /\ \A k \in 1..Len(errors) :
          /\ errors[k].step \in Executed
          /\ results[KeyOf(errors[k].step)] = ListV(<< >>)
    /\ ex_pc = "returned" => Len(backend_log) = ex_n

\* the value a reference {key.field...} stands for, read off the stored
\* result: the fields of the first row; "missing" when there is none
Missing == [t |-> "missing", v |-> None]

RECURSIVE FieldAt(_, _)
FieldAt(val, fields) ==
    IF fields = << >> THEN val
    ELSE IF val.t = "dict" /\ Head(fields) \in DOMAIN val.v
         THEN FieldAt(val.v[Head(fields)], Tail(fields))
    ELSE Missing

Referenced(list, fields) ==
    IF fields = << >> THEN list
    ELSE IF list.v = << >> THEN Missing
    ELSE FieldAt(list.v[1], fields)

\* the keys stored by the steps before step i
EarlierKeys(i) == {KeyOf(j) : j \in 1..(i - 1)}

\* the last iteration went through lines 248-295
StepDone ==
    /\ ex_pc \in {"loop", "left", "returned"}
    /\ ex_i > 1

\* C4: when the params of step i are resolved, a reference is replaced only
\* if its key was stored by an earlier step of the run and the path exists
\* there; a reference to a later step's key, to a key never stored, to a
\* failed step's empty result or with a missing path segment stays the
\* original literal text.
C4_BackwardReferencesOnly ==
    StepDone =>
        LET i == ex_i - 1
            before == ex_query.params.str
            after == resolved_params.str
        IN  /\ Len(after) = Len(before)
            /\ \A k \in 1..Len(before) :
                 before[k].seg = "ref" =>
                   LET key == before[k].path[1]
                       fields == Tail(before[k].path)
                       earlier == key \in EarlierKeys(i)
                       val == IF earlier THEN Referenced(results[key], fields)
                              ELSE Missing
                   IN  /\ after[k] # before[k] =>
                            /\ earlier
                            /\ val.t \notin {"missing", "none"}
                            /\ after[k] = Lit(PyStr(val))
                       /\ ~earlier => after[k] = before[k]
                       /\ (earlier /\ val.t \in {"missing", "none"})
                            => after[k] = before[k]

\* C4 witness: step 2 referenced step 1 (resolved) and step 3 (left as is)
C4_Witness ==
    /\ StepDone
    /\ ex_i = 3
    /\ ex_n = 3
    /\ ex_query.params.str = << Ref(<< "s1", "f" >>), Ref(<< "s3", "f" >>) >>
    /\ resolved_params.str = << Lit("SLTA062"), Ref(<< "s3", "f" >>) >>

\* C9: the session is acquired once before the first step and closed once
\* after the last, on every exit path; no step runs outside the open session.
C9_SessionScoped ==
    /\ db_acquired <= 1
    /\ db_closed <= 1
    /\ ex_pc = "start" => (db_acquired = 0 /\ backend_log = << >>)
    /\ ex_pc = "loop" =>
          (db_session = "open" /\ db_acquired = 1 /\ db_closed = 0)
    /\ ex_pc \in {"left", "returned", "raised"} =>
          (db_session = "closed" /\ db_acquired = 1 /\ db_closed = 1)
    /\ ex_pc = "raised" => db_rolled_back

\* C9 witness: a step failed, a later query let an exception escape the loop
C9_Witness ==
    /\ ex_pc = "raised"
    /\ Len(errors) > 0
    /\ db_session = "closed"
    /\ db_closed = 1


(***************************************************************************)
(* Claims on the layout composer.                                          *)
(***************************************************************************)
IsRow(b) == b.children # << >>

\* the leaf blocks of a composed list, row children in place
RECURSIVE Flatten(_)
Flatten(bs) ==
    IF bs = << >> THEN << >>
    ELSE (IF IsRow(Head(bs)) THEN Head(bs).children ELSE << Head(bs) >>)
         \o Flatten(Tail(bs))

Occurrences(leaves, j) == Cardinality({p \in 1..Len(leaves) : leaves[p].src = j})

\* C5: the composed tree holds every one of the k input blocks exactly once,
\* on the external-sequence path and on the fallback path.
C5_Coverage ==
    lay_pc = "done" =>
        /\ Len(Flatten(blocks)) = Len(block_drafts)
        /\ \A j \in 1..Len(block_drafts) : Occurrences(Flatten(blocks), j) = 1

\* the state in which C5 fails: the applied sequence left a block out
C5_BlockLost ==
    /\ lay_pc = "done"
    /\ lay_path = "external"
    /\ \E j \in 1..Len(block_drafts) : Occurrences(Flatten(blocks), j) = 0

\* the state in which C5 fails: the applied sequence named a block twice
C5_BlockDuplicated ==
    /\ lay_pc = "done"
    /\ lay_path = "external"
    /\ \E j \in 1..Len(block_drafts) : Occurrences(Flatten(blocks), j) > 1

NeverInRow == {"table", "map", "air_quality"}

\* C6: no table, map or air_quality block is among the children of a row,
\* for any supplied layout sequence and for the fallback.
C6_NoTableInRow ==
    lay_pc = "done" =>
        \A p \in 1..Len(blocks) :
            \A c \in 1..Len(blocks[p].children) :
                blocks[p].children[c].type \notin NeverInRow

\* the fallback alone keeps tables, maps and air-quality blocks out of rows
C6_FallbackKeepsOut ==
    lay_path = "fallback" =>
        \A p \in 1..Len(blocks) :
            \A c \in 1..Len(blocks[p].children) :
                blocks[p].children[c].type \notin NeverInRow

FallbackPrefix ==
    lay_path = "fallback" =>
        /\ fb_i <= Len(block_drafts)
        /\ Flatten(blocks) = SubSeq(block_drafts, 1, fb_i)

FallbackResult ==
    (lay_path = "fallback" /\ lay_pc = "done") =>
        Flatten(blocks) = block_drafts

\* C7: _fallback_layout terminates on every block list, and its output,
\* flattened, is the input list in the original order.
C7_FallbackTotal ==
    /\ [](FallbackPrefix /\ FallbackResult)
    /\ <>(lay_pc = "done")

\* C7 witness: the fallback returned a list in which it had built a row
C7_Witness ==
    /\ lay_pc = "done"
    /\ lay_path = "fallback"
    /\ Len(block_drafts) = 3
    /\ \E p \in 1..Len(blocks) : IsRow(blocks[p])


(***************************************************************************)
(* Claims on the external-API executor.                                    *)
(***************************************************************************)
\* the api_only bundles executed by the call for bundle name, with the place
\* of each result: 0 = the call's own result, p = entry p of api_results
CalledBy(name) ==
    IF name \notin DOMAIN api_config THEN {}
    ELSE IF api_config[name].type = "api_only" THEN {<< name, 0 >>}
    ELSE IF api_config[name].type = "mixed"
    THEN LET ns == MixedNames(api_config[name])
         IN  {<< ns[p], p >> : p \in {q \in 1..Len(ns) : ns[q] \in ApiOnlyBundles}}
    ELSE {}

ResultAt(name, place) ==
    IF place = 0 THEN api_results[name].result
    ELSE api_results[name].result.api_results[place].data

\* C10: an unknown API name and a backend function that raises both give a
\* {success: false, error} result, no exception leaves execute_api_bundle,
\* every later bundle is executed and every requested name has an entry.
C10_ApiFailuresStructured ==
    /\ api_pc # "raised"
    /\ (api_pc \in {"loop", "returned"} /\ api_i > 1) =>
          LET name == api_request[api_i - 1]
          IN  /\ name \in DOMAIN api_results
              /\ \A c \in CalledBy(name) :
                   LET api == api_config[c[1]].api
                       res == ResultAt(name, c[2])
                   IN  /\ (api \notin API_FUNCTION_MAP /\ api # "maps_javascript")
                            => res = Failure("Unknown API")
                       /\ (api \in API_FUNCTION_MAP /\ api_oracle[api] = "raise")
                            => (~res.success /\ res.error = "exception")
    /\ \A k \in 1..(api_i - 1) : api_request[k] \in DOMAIN api_results
    /\ api_pc = "returned" =>
          /\ api_i = Len(api_request) + 1
          /\ DOMAIN api_results = Range(api_request)

\* C10 witness: the first bundle named an unknown API, the backend function
\* of the second raised, and both have their entry in the returned dict
C10_Witness ==
    /\ api_pc = "returned"
    /\ api_request = << "b1", "b2" >>
    /\ api_config["b1"].api = "bogus"
    /\ api_config["b2"].api = "street_view"
    /\ api_oracle["street_view"] = "raise"
    /\ api_results["b1"].result = Failure("Unknown API")
    /\ api_results["b2"].result = Failure("exception")


(***************************************************************************)
(* Claims on the HTTP callers with retries.                                *)
(***************************************************************************)
\* every attempt the loop allows was made and failed with a RequestException
AllAttemptsFailed ==
    /\ Len(rt_log) = retries
    /\ \A k \in 1..retries : rt_log[k] \in RequestExceptions

\* b is 1.5 times a
GrowsOneAndAHalf(a, b) == 2 * b.num * a.den = 3 * a.num * b.den

\* C11: a call makes at most 3 HTTP attempts; the k-th sleep follows the
\* failed k-th attempt, is 1.5 ** (k-1) long (the first 1, each next one 1.5
\* times the one before) and is followed by another attempt, so that no sleep
\* follows the last attempt; and when all attempts fail the call returns
\* {success: false, error, data: [], count: 0}.
C11_BoundedRetries ==
    /\ Len(rt_log) <= retries
    /\ \A k \in 1..Len(rt_sleeps) :
         /\ k < retries
         /\ k <= Len(rt_log)
         /\ rt_log[k] \in RequestExceptions
         /\ (k = 1) => (rt_sleeps[k].num = rt_sleeps[k].den)
         /\ (k > 1) => GrowsOneAndAHalf(rt_sleeps[k - 1], rt_sleeps[k])
    /\ (rt_pc \in {"after", "returned"} /\ rt_log # << >>)
         => (Len(rt_sleeps) = Len(rt_log) - 1)
    /\ (rt_pc = "returned" /\ AllAttemptsFailed)
         => /\ rt_result.success = FALSE
            /\ rt_result.error # None
            /\ rt_result.data = << >>
            /\ rt_result.count = 0

\* C11 witness: three attempts failed, two sleeps were made, and the call
\* returned the failure dict
C11_Witness ==
    /\ rt_pc = "returned"
    /\ AllAttemptsFailed
    /\ Len(rt_sleeps) = retries - 1
    /\ rt_result.success = FALSE


(***************************************************************************)
(* Claims on database failures in execute_data_queries.                    *)
(***************************************************************************)
\* the search and filter steps whose query raised inside DBQueryTool.query
DbFailedSteps == {i \in Executed : backend_log[i] = "raised"}

\* C12: when the query of a search or filter step raises inside
\* DBQueryTool.query, the returned output lists the failure in errors,
\* reports the step's save_as key with count 0 (its result is empty), has
\* success false, and every step of the plan was executed.
C12_DbFailureCaptured ==
    (ex_pc = "returned" /\ DbFailedSteps # {}) =>
        /\ \A i \in DbFailedSteps :
              /\ \E k \in 1..Len(output.errors) : output.errors[k].step = i
              /\ results[KeyOf(i)] = ListV(<< >>)
              /\ output.counts[KeyOf(i)] = 0
        /\ output.success = FALSE
        /\ Len(backend_log) = ex_n

\* the state in which C12 fails: the only step's query raised, and the
\* output reports success with one row under its key and no error
C12_ReportedAsSuccess ==
    /\ ex_pc = "returned"
    /\ ex_n = 1
    /\ DbFailedSteps = {1}
    /\ output.success = TRUE
    /\ output.errors = << >>
    /\ output.counts[KeyOf(1)] = 1

\* the query of every step of a non-empty plan raised: the database was
\* unreachable for the whole run
DbUnreachable ==
    /\ ex_n > 0
    /\ Len(backend_log) = ex_n
    /\ DbFailedSteps = 1..ex_n

\* C13: when the database is unreachable for the whole run, the output is
\* one terminal error: success is false and errors has a single entry,
\* instead of one result per step.
C13_UnreachableIsTerminal ==
    (ex_pc = "returned" /\ DbUnreachable) =>
        /\ output.success = FALSE
        /\ Len(output.errors) = 1

\* the state in which C13 fails: every query of a plan of two steps raised
\* and the output reports success with a one-row result for each step
C13_ReportedPerStep ==
    /\ ex_pc = "returned"
    /\ ex_n = 2
    /\ DbUnreachable
    /\ output.success = TRUE
    /\ \A i \in 1..ex_n : output.counts[KeyOf(i)] = 1

\* the loop makes one query per step and never repeats a step
C13_NoRetry == Len(backend_log) <= ex_n


(***************************************************************************)
(* Claims on unknown bundle names in resolve_bundles.                      *)
(***************************************************************************)
\* the unknown name occurs in the request or in a requires list
UnknownNamed ==
    \/ UnknownBundle \in Range(bundle_names)
    \/ \E b \in KnownBundles : UnknownBundle \in Range(rb_requires[b])

\* b is resolved: its queries, stats and block config are in the output
Contributes(b) ==
    /\ b \in loaded_bundles
    /\ QueriesOfBundle(b) = ParseAll(b, BundleQueries(b))
    /\ Range(BundleStats(b)) \subseteq Range(all_stats)
    /\ b \in DOMAIN block_configs
    /\ block_configs[b] = BundleBlock(b)

\* C14: a requested or required name absent from the configuration is
\* skipped without raising (acyclic requires): every requested known bundle,
\* also one that requires the unknown name, contributes its queries, stats
\* and block config, and the unknown name has no block config entry.
C14_UnknownBundleSkipped ==
    Acyclic(rb_requires) =>
        /\ rb_pc # "raised"
        /\ UnknownBundle \notin DOMAIN block_configs
        /\ UnknownBundle \notin loaded_bundles
        /\ rb_pc = "returned" =>
              \A b \in Range(bundle_names) \cap KnownBundles : Contributes(b)

\* C14 witness: the unknown name was requested first and is required by A,
\* which was requested after it and is resolved
C14_Witness ==
    /\ rb_pc = "returned"
    /\ Acyclic(rb_requires)
    /\ bundle_names = << UnknownBundle, "A" >>
    /\ rb_requires["A"] = << UnknownBundle >>
    /\ Contributes("A")


(***************************************************************************)
(* Claims on out-of-range indices in _apply_layout_sequence.               *)
(***************************************************************************)
\* idx names one of the current block drafts
ValidIndex(idx) == idx >= 0 /\ idx < Len(block_drafts)

\* the items of the sequence that leave something in the output tree
Survives(item) ==
    \/ item.kind = "int" /\ ValidIndex(item.idx)
    \/ item.kind = "dict" /\ \E c \in 1..Len(item.indices) :
                                 ValidIndex(item.indices[c])

\* C15: applying a non-empty layout sequence never raises; an out-of-range
\* index, at top level or in a row's indices, leaves nothing in the output;
\* every in-range item is placed, in sequence order; a row whose indices are
\* all out of range gives no row.
C15_OutOfRangeDropped ==
    (lay_pc = "done" /\ lay_path = "external" /\ layout_sequence # << >>) =>
        LET kept == SelectSeq(layout_sequence, Survives)
        IN  /\ Len(blocks) = Len(kept)
            /\ \A k \in 1..Len(kept) :
                 IF kept[k].kind = "int"
                 THEN blocks[k] = block_drafts[kept[k].idx + 1]
                 ELSE LET ix == SelectSeq(kept[k].indices, ValidIndex)
                      IN  /\ blocks[k].type = "row"
                          /\ Len(blocks[k].children) = Len(ix)
                          /\ \A c \in 1..Len(ix) :
                               blocks[k].children[c] = block_drafts[ix[c] + 1]

\* C15 witness: a row of a negative and a too large index, then index 0;
\* the output is the first block alone
C15_Witness ==
    /\ lay_pc = "done"
    /\ lay_path = "external"
    /\ Len(block_drafts) = 2
    /\ layout_sequence = << RowItem(<< 0 - 1, 2 >>), IntItem(0) >>
    /\ blocks = << block_drafts[1] >>


(***************************************************************************)
(* Claims on the merge rule of the fallback layout.                        *)
(***************************************************************************)
\* a chart whose style is doughnut or pie
IsDoughnutOrPie(b) == b.type = "chart" /\ b.chartType \in {"doughnut", "pie"}

\* the leaves of the greedy left-to-right scan: one entry per output block,
\* each the list of the input blocks it holds
RECURSIVE GreedyPairs(_)
GreedyPairs(ds) ==
    IF ds = << >> THEN << >>
    ELSE IF Len(ds) >= 2 /\ IsDoughnutOrPie(ds[1]) /\ IsDoughnutOrPie(ds[2])
    THEN << << ds[1], ds[2] >> >> \o GreedyPairs(SubSeq(ds, 3, Len(ds)))
    ELSE << << ds[1] >> >> \o GreedyPairs(Tail(ds))

\* C16: the fallback output is the greedy left-to-right scan of the input:
\* two consecutive charts of style doughnut or pie form one row, every other
\* block stays at top level, in the original order.
C16_GreedyDoughnutPieMerge ==
    (lay_path = "fallback" /\ lay_pc = "done") =>
        LET want == GreedyPairs(block_drafts)
        IN  /\ Len(blocks) = Len(want)
            /\ \A k \in 1..Len(want) :
                 IF Len(want[k]) = 2
                 THEN blocks[k].children = want[k]
                 ELSE blocks[k] = want[k][1]

\* the state in which C16 fails: two consecutive pie charts stayed at top
\* level
C16_PiesNotMerged ==
    /\ lay_path = "fallback"
    /\ lay_pc = "done"
    /\ Len(block_drafts) = 2
    /\ \A j \in 1..2 : block_drafts[j].chartType = "pie"
    /\ blocks = block_drafts

\* what the code does: the same scan with doughnut charts only
RECURSIVE DoughnutPairs(_)
DoughnutPairs(ds) ==
    IF ds = << >> THEN << >>
    ELSE IF Len(ds) >= 2 /\ IsDoughnut(ds[1]) /\ IsDoughnut(ds[2])
    THEN << << ds[1], ds[2] >> >> \o DoughnutPairs(SubSeq(ds, 3, Len(ds)))
    ELSE << << ds[1] >> >> \o DoughnutPairs(Tail(ds))

C16_DoughnutOnlyMerge ==
    (lay_path = "fallback" /\ lay_pc = "done") =>
        LET want == DoughnutPairs(block_drafts)
        IN  /\ Len(blocks) = Len(want)
            /\ \A k \in 1..Len(want) :
                 IF Len(want[k]) = 2
                 THEN blocks[k].children = want[k]
                 ELSE blocks[k] = want[k][1]


(***************************************************************************)
(* Claims on the id assignment and the pairing pass.                       *)
(***************************************************************************)
\* the input block at position p is a data block
IsDataBlock(p) ==
    an_input[p].type \in {"chart", "table", "image", "map", "air_quality"}

\* the number of data blocks among the first p input blocks
DataRank(p) == Cardinality({q \in 1..p : IsDataBlock(q)})

\* C17: after _assign_block_ids the list has the same blocks in the same
\* order; the j-th block of type chart, table, image, map or air_quality has
\* the id block_j, and no other block has an id.
C17_MonotonicBlockIds ==
    an_pc \in {"pair", "extend"} =>
        /\ Len(an_blocks) = Len(an_input)
        /\ \A p \in 1..Len(an_input) :
              /\ an_blocks[p].type = an_input[p].type
              /\ an_blocks[p].paired_with = an_input[p].paired_with
              /\ an_blocks[p].id = IF IsDataBlock(p) THEN BlockId(DataRank(p))
                                   ELSE NoKey

\* C17 witness: a chart, a markdown block and a map got block_1, no id and
\* block_2
C17_Witness ==
    /\ an_pc = "pair"
    /\ Len(an_input) = 3
    /\ an_input[1].type = "chart"
    /\ an_input[2].type = "markdown"
    /\ an_input[3].type = "map"
    /\ an_blocks[1].id = BlockId(1)
    /\ an_blocks[2].id = NoKey
    /\ an_blocks[3].id = BlockId(2)

\* the positions of the blocks that need a companion
NeedsCompanion ==
    {p \in 1..Len(an_blocks) :
        /\ an_blocks[p].id # NoKey
        /\ an_blocks[p].type \notin {"map", "air_quality"}}

\* the positions of the companions of the block with this id
CompanionsOf(id) ==
    {q \in 1..Len(an_blocks) :
        an_blocks[q].type = "markdown" /\ an_blocks[q].paired_with = id}

\* C18: when analyse_agent_node is done, every id-bearing block other than
\* a map or air_quality block has exactly one companion markdown block, and
\* every companion names the id of such a block.
C18_OneCompanionEach ==
    an_pc = "done" =>
        /\ \A p \in NeedsCompanion :
              Cardinality(CompanionsOf(an_blocks[p].id)) = 1
        /\ \A q \in 1..Len(an_blocks) :
              an_blocks[q].paired_with # NoKey =>
                  \E p \in NeedsCompanion :
                      an_blocks[p].id = an_blocks[q].paired_with

\* the state in which C18 fails: the text generator raised and the chart has
\* no companion
C18_NoCompanion ==
    /\ an_pc = "done"
    /\ an_llm.kind = "raise"
    /\ Len(an_input) = 1
    /\ an_input[1].type = "chart"
    /\ CompanionsOf(BlockId(1)) = {}

\* the state in which C18 fails: a companion names the id of a map block
C18_CompanionOfMap ==
    /\ an_pc = "done"
    /\ \E p, q \in 1..Len(an_blocks) :
          /\ an_blocks[p].type = "map"
          /\ an_blocks[q].paired_with = an_blocks[p].id
          /\ an_blocks[q].paired_with # NoKey


(***************************************************************************)
(* Claims on _substitute_vars of the API bundles.                          *)
(***************************************************************************)
\* the key or a segment of the path is missing from the context
Unresolved(path) == FieldAt(DictV(sv_context), path).t = "missing"

UnresolvedRef(seg) == seg.seg = "ref" /\ Unresolved(seg.path)

\* C19: a reference $ref.<key>.<field> whose key or a path segment is
\* missing from the context is returned as its original literal text, and a
\* value made of unresolved references alone is returned as it is.
C19_UnresolvedRefUnchanged ==
    sv_pc = "done" =>
        /\ \A k \in 1..Len(sv_value) :
              UnresolvedRef(sv_value[k]) => sv_result.str[k] = sv_value[k]
        /\ (\A k \in 1..Len(sv_value) : UnresolvedRef(sv_value[k]))
              => sv_result.str = sv_value

\* the state in which C19 fails: the key of the reference is missing and the
\* returned string is empty
C19_BlankedReference ==
    /\ sv_pc = "done"
    /\ sv_value = << Ref(<< "missing", "x" >>) >>
    /\ "missing" \notin DOMAIN sv_context
    /\ sv_result.str = << Lit("") >>

\* what the code does: an unresolved reference is replaced by the empty text
C19_UnresolvedRefBlank ==
    sv_pc = "done" =>
        \A k \in 1..Len(sv_value) :
            UnresolvedRef(sv_value[k]) => sv_result.str[k] = Lit("")


(***************************************************************************)
(* Claims on concurrent runs.                                              *)
(***************************************************************************)
\* the sessions made by run r
SessionsOf(r) == {s \in 1..Len(cc_sessions) : cc_sessions[s].owner = r}

\* C20: under every interleaving of two runs, a reference resolved in a run
\* stands for a value that run stored itself (the value of its own
\* organization), the errors of a run are those of its own steps, every
\* query of a run goes through the one session the run made, and a session
\* is closed only by the run that made it, once.
C20_RunsIsolated ==
    /\ \A r \in Runs :
         LET me == cc_run[r]
             before == me.query.params.str
             after == me.resolved.str
         IN  /\ Len(after) = Len(before)
             /\ \A k \in 1..Len(before) :
                  (before[k].seg = "ref" /\ after[k] # before[k]) =>
                     /\ before[k].path[1] \in DOMAIN me.results
                     /\ after[k] = Lit(PyStr(Referenced(
                                       me.results[before[k].path[1]],
                                       Tail(before[k].path))))
                     /\ after[k] = Lit(OrgOf(r))
             /\ \A k \in 1..Len(me.errors) :
                  /\ me.errors[k].run = r
                  /\ me.errors[k].step < me.i
             /\ Cardinality(SessionsOf(r)) <= 1
             /\ me.used \subseteq SessionsOf(r)
             /\ me.db # 0 => me.db \in SessionsOf(r)
    /\ \A s \in 1..Len(cc_sessions) :
         /\ Len(cc_sessions[s].closers) <= 1
         /\ \A k \in 1..Len(cc_sessions[s].closers) :
              cc_sessions[s].closers[k] = cc_sessions[s].owner
         /\ cc_sessions[s].state = "closed" =>
              cc_run[cc_sessions[s].owner].pc \in {"returned", "raised"}

\* C20 witness: both runs stored a row under the same key; the second run
\* resolved its reference to its own value and returned, closing its
\* session, while the first run, with a failed step, still has its session
\* open
C20_Witness ==
    /\ cc_run["r1"].pc = "loop"
    /\ cc_run["r2"].pc = "returned"
    /\ \A r \in Runs : KeyOf(1) \in DOMAIN cc_run[r].results
    /\ cc_run["r1"].results[KeyOf(1)] = ListV(<< CcRow("r1") >>)
    /\ cc_run["r2"].results[KeyOf(1)] = ListV(<< CcRow("r2") >>)
    /\ cc_run["r2"].query.params.str = << Ref(<< KeyOf(1), "f" >>) >>
    /\ cc_run["r2"].resolved.str = << Lit("org2") >>
    /\ Len(cc_run["r1"].errors) = 1
    /\ cc_run["r2"].errors = << >>
    /\ cc_sessions[cc_run["r1"].db].state = "open"
    /\ cc_sessions[cc_run["r2"].db].state = "closed"


(***************************************************************************)
(* Claims on the configuration cache.                                      *)
(***************************************************************************)
\* a call of _load_config that found a configuration cached returns it
\* without opening the file
C21_MemoizedAfterSuccess ==
    \A t \in Threads :
        (CfDone(t) /\ cf_call[t].op = "load" /\ cf_call[t].entry \in Configs)
            => /\ cf_call[t].parsed = 0
               /\ cf_call[t].ret = cf_call[t].entry

\* reload_config parses exactly once; when that succeeds the global is the
\* value parsed
C21_ReloadParsesOnce ==
    \A t \in Threads :
        (CfDone(t) /\ cf_call[t].op = "reload")
            => /\ cf_call[t].parsed = 1
               /\ cf_call[t].ret \in Configs
                     => _BUNDLES_CONFIG = cf_call[t].ret

\* a first load that raises leaves the global None
C21_FailedLoadCachesNothing ==
    \A t \in Threads :
        (CfRaised(t) /\ cf_call[t].op = "load" /\ cf_call[t].entry = None)
            => _BUNDLES_CONFIG = None

\* C21: with calls following one another, the load is memoized after the
\* first successful load: a later _load_config returns the cached
\* configuration without parsing again; reload_config forces exactly one
\* fresh parse and replaces the cached value; a failed first load caches
\* nothing.
C21_Memoized ==
    /\ C21_MemoizedAfterSuccess
    /\ C21_ReloadParsesOnce
    /\ C21_FailedLoadCachesNothing

\* the state in which C21 fails: the file holds JSON that is not an object,
\* the first load raised AttributeError and the list is cached
C21_ListCached ==
    /\ CfRaised("t1")
    /\ cf_call["t1"].op = "load"
    /\ cf_call["t1"].entry = None
    /\ cf_call["t1"].ret = "AttributeError"
    /\ _BUNDLES_CONFIG = NotAnObject

\* what the code does: a first load that cannot open or parse the file
\* caches nothing
C21_UnparsedCachesNothing ==
    \A t \in Threads :
        (CfDone(t) /\ cf_call[t].op = "load" /\ cf_call[t].entry = None
           /\ cf_call[t].ret \in ParseErrors)
            => _BUNDLES_CONFIG = None

\* C27: when one thread calls _load_config while another calls
\* reload_config, and the config file is a valid configuration all along,
\* _load_config returns a parsed configuration: never None, never an error.
C27_LoadReturnsConfig ==
    (CfDone("t1") /\ cf_call["t1"].op = "load" /\ ~cf_bad)
        => cf_call["t1"].ret \in Configs

\* the state in which C27 fails: the cache was cleared between the test of
\* line 23 and the return of line 28
C27_ReturnedNone ==
    /\ CfDone("t1")
    /\ ~cf_bad
    /\ cf_call["t1"].entry \in Configs
    /\ cf_call["t1"].ret = None

\* the same race after the assignment: the log statement reads None
C27_RaisedOnCleared ==
    /\ CfDone("t1")
    /\ ~cf_bad
    /\ cf_call["t1"].ret = "AttributeError"

\* C30: when the parse of reload_config fails because the file is missing
\* or is not JSON, the configuration cached before the call is still cached.
C30_FailedReloadKeepsCache ==
    \A t \in Threads :
        (CfDone(t) /\ cf_call[t].op = "reload"
           /\ cf_call[t].entry \in Configs /\ cf_call[t].ret \in ParseErrors)
            => _BUNDLES_CONFIG = cf_call[t].entry

\* what the code does: reload_config clears the global before it parses, so
\* a failed parse leaves None
C30_FailedReloadClears ==
    \A t \in Threads :
        (CfDone(t) /\ cf_call[t].op = "reload"
           /\ cf_call[t].ret \in ParseErrors)
            => _BUNDLES_CONFIG = None

\* the state in which C30 fails
C30_CacheLost ==
    /\ CfDone("t1")
    /\ cf_call["t1"].op = "reload"
    /\ cf_call["t1"].entry = "cfgA"
    /\ cf_call["t1"].ret = "FileNotFoundError"
    /\ _BUNDLES_CONFIG = None


(***************************************************************************)
(* Claims on the range_filter and aggregate actions of                     *)
(* execute_data_queries.                                                   *)
(***************************************************************************)
\* the iteration executed last, and whether it was one of the two actions
LastStep == Len(backend_log)

LastWas(action) ==
    /\ ex_pc \in {"loop", "left", "returned"}
    /\ LastStep >= 1
    /\ ex_query.action = action

UnknownActionRows == ListV(<< ErrorRow("Unknown action") >>)

\* C24: a step whose action is range_filter or aggregate reaches the
\* backend, its rows are stored under save_as and nothing is added to
\* errors: it is not treated as an unknown action and does not fail before
\* the backend is asked.
C24_RangeAndAggregateRun ==
    (LastWas("range_filter") \/ LastWas("aggregate")) =>
        /\ backend_log[LastStep] = "rows"
        /\ \A k \in 1..Len(errors) : errors[k].step # LastStep
        /\ results[ex_query.save_as] # UnknownActionRows

\* what the code does with aggregate: line 277 calls a method DBQueryTool
\* does not have; the AttributeError is recorded and the key holds []
C24_AggregateRaises ==
    LastWas("aggregate") =>
        /\ backend_log[LastStep] = "not_called"
        /\ \E k \in 1..Len(errors) :
              errors[k] = [step |-> LastStep, exc |-> "AttributeError"]
        /\ results[ex_query.save_as] = ListV(<< >>)

\* what the code does with range_filter: no branch of lines 257-286 names
\* it, so it is the unknown action of line 286
C24_RangeFilterUnknown ==
    LastWas("range_filter") =>
        /\ backend_log[LastStep] = "not_called"
        /\ \A k \in 1..Len(errors) : errors[k].step # LastStep
        /\ results[ex_query.save_as] = UnknownActionRows


(***************************************************************************)
(* Claims on _calculate_demographics_stats.                                *)
(***************************************************************************)
HasSignature(record, provider) == Signature(provider) \in DOMAIN record

\* the number in a cell of a record whose cells are numbers or NULL
CellNumber(record, col) ==
    IF col \in DOMAIN record /\ record[col].t = "int" THEN record[col].v ELSE 0

\* the share of the age group "20" that a provider's columns give
Share20(record, provider) ==
    (CellNumber(record, Column(provider, "20", "male"))
       + CellNumber(record, Column(provider, "20", "female")))
    * (IF provider = "A" THEN 1 ELSE 100)

\* the provider the claim names for a first record
Expected(record) ==
    CASE HasSignature(record, "A") -> "A"
      [] ~HasSignature(record, "A") /\ HasSignature(record, "B") -> "B"
      [] ~HasSignature(record, "A") /\ ~HasSignature(record, "B")
           /\ HasSignature(record, "C") -> "C"
      [] OTHER -> "unrecognized"

\* C25: only the first record is inspected; the schema is that of provider
\* A if m_20 is present, else B if mrcno_pct_20_male is present, else C if
\* persona_pct_20_male is present, whatever lower-priority signatures are
\* present too, and the statistics come from that provider's columns; with
\* no signature present the result is has_data = false and nothing is
\* raised.
C25_SchemaPriority ==
    (dm_pc = "done" /\ dm_input # << >>) =>
        LET first == dm_input[1]
        IN  /\ dm_result.detected = Expected(first)
            /\ dm_result.has_data =>
                  dm_result.age_distribution[1]
                      = Share20(first, Expected(first))
            /\ Expected(first) = "unrecognized" =>
                  /\ ~dm_result.raised
                  /\ ~dm_result.has_data
                  /\ dm_result.summary = "unrecognized format"

\* two signatures in the first record, and a later record of another schema
C25_Witness ==
    /\ dm_pc = "done"
    /\ Len(dm_input) = 2
    /\ HasSignature(dm_input[1], "B")
    /\ HasSignature(dm_input[1], "C")
    /\ ~HasSignature(dm_input[1], "A")
    /\ HasSignature(dm_input[2], "A")
    /\ dm_result.has_data
    /\ dm_result.detected = "B"
    /\ dm_result.age_distribution[1] = 100

\* no signature in the first record: the "no usable data" result
C25_Unrecognized ==
    /\ dm_pc = "done"
    /\ Len(dm_input) = 2
    /\ Expected(dm_input[1]) = "unrecognized"
    /\ HasSignature(dm_input[2], "A")
    /\ ~dm_result.has_data


(***************************************************************************)
(* Claims on the preset lookups.                                           *)
(***************************************************************************)
\* the mapping of the configuration, empty when the key is absent
MappingOf(config, loader) ==
    IF MappingKey(loader) \in DOMAIN config
    THEN config[MappingKey(loader)] ELSE << >>

\* name = prefix + keyword + suffix
Contains(name, keyword) ==
    \E i \in 0..Len(name) : \E j \in i..Len(name) :
        SubSeq(name, i + 1, j) = keyword

\* the positions of the mapping whose keyword is in the name
Matches(mapping, name) ==
    {i \in 1..Len(mapping) : Contains(name, mapping[i].keyword)}

\* C22: get_preset_for_org returns the preset of the first keyword, in the
\* order of the mapping, that is a substring of the organization name, and
\* the default preset when no keyword is.
C22_FirstKeywordWins ==
    ps_pc \in {"bundles", "done"} =>
        LET mapping == MappingOf(ps_config, ps_loader)
            matches == Matches(mapping, org_name)
        IN  IF matches = {}
            THEN ps_preset = DefaultPreset(ps_loader)
            ELSE \E i \in matches :
                    /\ \A j \in matches : i <= j
                    /\ ps_preset = mapping[i].preset

\* two keywords of the mapping are in the name and name different presets
C22_Witness ==
    /\ ps_pc = "bundles"
    /\ LET mapping == MappingOf(ps_config, ps_loader)
       IN  /\ Len(mapping) = 2
           /\ Matches(mapping, org_name) = {1, 2}
           /\ mapping[1].preset = "p2"
           /\ mapping[2].preset = "p1"
           /\ ps_preset = "p2"

\* no keyword is in the name: the default preset
C22_DefaultReturned ==
    /\ ps_pc = "bundles"
    /\ Len(MappingOf(ps_config, ps_loader)) = 2
    /\ Matches(MappingOf(ps_config, ps_loader), org_name) = {}
    /\ ps_preset = DefaultPreset(ps_loader)

\* the bundle list of a preset of the configuration, empty when the preset
\* or its list is absent
BundlesOf(config, name) ==
    IF "presets" \notin DOMAIN config THEN << >>
    ELSE IF name \notin DOMAIN config["presets"] THEN << >>
    ELSE IF "bundles" \notin DOMAIN config["presets"][name] THEN << >>
    ELSE config["presets"][name]["bundles"]

\* C23: get_bundles_for_preset returns the bundle list of the named preset
\* when it is not empty, else the list of the default preset, else the
\* empty list; it raises for no preset name.
C23_FallbackNeverRaises ==
    ps_pc = "done" =>
        /\ ~ps_bundles.raised
        /\ ps_bundles.bundles =
              IF BundlesOf(ps_config, preset_name) # << >>
              THEN BundlesOf(ps_config, preset_name)
              ELSE BundlesOf(ps_config, DefaultPreset(ps_loader))

\* the named preset is absent and the default preset has bundles
C23_Witness ==
    /\ ps_pc = "done"
    /\ preset_name = "nope"
    /\ "presets" \in DOMAIN ps_config
    /\ preset_name \notin DOMAIN ps_config["presets"]
    /\ BundlesOf(ps_config, DefaultPreset(ps_loader)) = << "B" >>
    /\ ps_bundles = PsReturned(<< "B" >>)

\* the named preset and the default preset are both absent: the empty list
C23_Degraded ==
    /\ ps_pc = "done"
    /\ preset_name = "nope"
    /\ "presets" \in DOMAIN ps_config
    /\ ps_config["presets"] = << >>
    /\ ps_bundles = PsReturned(<< >>)


(***************************************************************************)
(* Claims on the result of analyse_agent_node.                             *)
(***************************************************************************)
IsPlaceholder(b) == b.role = "fallback"

\* the comprehensive sections of the returned list
ComprehensiveIn(bs) == SelectSeq(bs, LAMBDA b : b.role = "comprehensive")

\* no block was produced: none merged from the statistics, the APIs and the
\* tools, none paired, none comprehensive
NothingProduced ==
    /\ an_input = << >>
    /\ paired_markdowns = << >>
    /\ ComprehensiveIn(an_blocks) = << >>

\* C26: a completed run of analyse_agent_node returns a non-empty
\* block_drafts, and the "generation failed" placeholder is in it if and
\* only if no block at all was produced; the placeholder is then the only
\* block.
C26_PlaceholderIffNothing ==
    an_pc = "done" =>
        /\ an_blocks # << >>
        /\ (\E k \in 1..Len(an_blocks) : IsPlaceholder(an_blocks[k]))
              <=> NothingProduced
        /\ NothingProduced => an_blocks = FallbackMessage

\* nothing was produced and the placeholder is returned
C26_Witness ==
    /\ an_pc = "done"
    /\ an_input = << >>
    /\ an_blocks = FallbackMessage

\* a run with blocks but without companions and sections has no placeholder
C26_NoPlaceholder ==
    /\ an_pc = "done"
    /\ Len(an_input) = 1
    /\ an_input[1].type = "chart"
    /\ an_llm.kind = "raise"
    /\ Len(an_blocks) = 1
    /\ ~IsPlaceholder(an_blocks[1])

\* a run that does not complete: an item of the pairing answer is not a dict
C26_RunRaised ==
    /\ an_pc = "raised"
    /\ \E k \in 1..Len(paired_markdowns) : paired_markdowns[k] = NotADict


(***************************************************************************)
(* Claims on a success that follows a failed attempt.                      *)
(***************************************************************************)
\* an attempt failed and a later one succeeded
SucceededAfterFailure ==
    /\ Len(rt_log) >= 2
    /\ rt_log[Len(rt_log)] = "ok"
    /\ \E k \in 1..(Len(rt_log) - 1) : rt_log[k] \in RequestExceptions

\* the dict of lines 162-169 (323)
IsRetryFailure(result) == result.success = FALSE /\ result.error = "call failed"

\* C28: the call stops retrying at the first successful attempt; when an
\* attempt succeeded after a failed one the retry-failure dict is not
\* returned, and it is returned only when every attempt failed.
C28_LaterSuccessWins ==
    /\ \A k \in 1..(Len(rt_log) - 1) : rt_log[k] # "ok"
    /\ rt_pc = "returned" =>
          /\ SucceededAfterFailure => ~IsRetryFailure(rt_result)
          /\ IsRetryFailure(rt_result) => AllAttemptsFailed

\* the state in which C28 fails: a timeout, then a successful response, and
\* the failure dict with the url of the successful response
C28_SuccessLost ==
    /\ rt_pc = "returned"
    /\ rt_log = << "Timeout", "ok" >>
    /\ IsRetryFailure(rt_result)
    /\ rt_result.url = "resp.url"

\* what the code does: last_exc is not cleared by a successful attempt, so
\* one failed attempt makes the call return the failure dict
C28_AnyFailureFails ==
    (rt_pc = "returned" /\ \E k \in 1..Len(rt_log) : rt_log[k] \in RequestExceptions)
        => ~rt_result.success


(***************************************************************************)
(* Claims on compose_report_node.                                          *)
(***************************************************************************)
\* the sequence the first finalize call received stands for
FirstSequence == cp_first.arg.seq

\* the decision-maker is invoked at most 5 times
C29_AtMostFive == cp_invocations <= max_iterations

\* the node returns
C29_Terminates == <>(lay_pc = "done")

\* with no block drafts the decision-maker is not invoked
C29_EmptyUninvoked ==
    (lay_pc = "done" /\ block_drafts = << >>)
        => cp_invocations = 0 /\ blocks = << >> /\ lay_path = "empty"

\* C29: compose_report_node invokes the layout decision-maker at most 5
\* times; with no block drafts it returns no blocks without invoking it;
\* otherwise it returns the sequence of the first finalize_report_layout
\* call, applied, if and only if such a call was received, and the fallback
\* layout in every other case.
C29_FinalizeIffExternal ==
    /\ C29_AtMostFive
    /\ C29_EmptyUninvoked
    /\ (lay_pc = "done" /\ block_drafts # << >>) =>
          /\ lay_path = "external" <=> cp_first.got
          /\ lay_path = "fallback" <=> ~cp_first.got
          /\ cp_first.got =>
                blocks = _apply_layout_sequence(block_drafts, FirstSequence)

\* the state in which C29 fails: the finalize call carried
\* layout_sequence = null, the loop went on, and the fallback was applied
C29_NullSequence ==
    /\ lay_pc = "done"
    /\ cp_first = [got |-> TRUE, arg |-> NullArg]
    /\ lay_path = "fallback"
    /\ ~cp_raised

\* the state in which C29 fails: a null finalize call, then a second
\* finalize call whose sequence is applied
C29_SecondFinalizeWins ==
    /\ lay_pc = "done"
    /\ cp_first = [got |-> TRUE, arg |-> NullArg]
    /\ lay_path = "external"
    /\ cp_invocations = 2

\* the state in which C29 fails: applying the sequence raised and the
\* fallback was applied
C29_ApplyRaised ==
    /\ lay_pc = "done"
    /\ cp_first = [got |-> TRUE, arg |-> ListArg(<< BadRowItem >>)]
    /\ lay_path = "fallback"
    /\ cp_raised

\* what the code does: the external sequence is applied exactly when a
\* finalize call with a layout_sequence other than null was received and
\* applying it did not raise; a later tool call of the same response is
\* ignored
C29_UsableFinalizeIffExternal ==
    (lay_pc = "done" /\ block_drafts # << >>) =>
        /\ lay_path = "external" <=> (cp_is_set /\ ~ApplyRaises(layout_sequence))
        /\ lay_path \in {"external", "fallback"}
        /\ lay_path = "external" =>
              /\ blocks = _apply_layout_sequence(block_drafts, layout_sequence)
              /\ LET at == {k \in 1..Len(cp_response.tool_calls) :
                              cp_response.tool_calls[k].name
                                  = "finalize_report_layout"}
                 IN  \E k \in at :
                        /\ \A j \in at : k <= j
                        /\ cp_response.tool_calls[k].arg.seq = layout_sequence

\* five responses without a finalize call: the fallback is applied
C29_FiveWithoutFinalize ==
    /\ lay_pc = "done"
    /\ cp_invocations = max_iterations
    /\ ~cp_first.got
    /\ ~cp_raised
    /\ cp_response.tool_calls # << >>
    /\ lay_path = "fallback"


(***************************************************************************)
(* Specifications.                                                         *)
(***************************************************************************)
NextResolve == RbLoadNext \/ RbReturn

InitResolve ==
    /\ RbInit
    /\ ExIdle
    /\ LayIdle
    /\ ApiIdle
    /\ RtIdle
    /\ AnIdle
    /\ SvIdle
    /\ CcIdle
    /\ CfIdle
    /\ DmIdle
    /\ PsIdle
    /\ CpIdle

SpecResolve == InitResolve /\ [][NextResolve]_vars

NextExec == ExEnter \/ ExStep \/ ExStepEscapes \/ ExLeave \/ ExReturn

InitExec ==
    /\ ExInit
    /\ RbIdle
    /\ LayIdle
    /\ ApiIdle
    /\ RtIdle
    /\ AnIdle
    /\ SvIdle
    /\ CcIdle
    /\ CfIdle
    /\ DmIdle
    /\ PsIdle
    /\ CpIdle

SpecExec == InitExec /\ [][NextExec]_vars

NextLayout ==
    ComposeEmpty \/ ComposeApply \/ ComposeFallback \/ FbIter \/ FbReturn

InitLayout ==
    /\ LayInit
    /\ RbIdle
    /\ ExIdle
    /\ ApiIdle
    /\ RtIdle
    /\ AnIdle
    /\ SvIdle
    /\ CcIdle
    /\ CfIdle
    /\ DmIdle
    /\ PsIdle
    /\ CpIdle

SpecLayout == InitLayout /\ [][NextLayout]_vars

NextFallback == FbIter \/ FbReturn

InitFallback ==
    /\ FbInit
    /\ RbIdle
    /\ ExIdle
    /\ ApiIdle
    /\ RtIdle
    /\ AnIdle
    /\ SvIdle
    /\ CcIdle
    /\ CfIdle
    /\ DmIdle
    /\ PsIdle
    /\ CpIdle

\* the interpreter keeps executing the loop it is in
SpecFallback ==
    /\ InitFallback
    /\ [][NextFallback]_vars
    /\ WF_vars(NextFallback)

NextApi == ApiStep \/ ApiReturn

InitApi ==
    /\ ApiInit
    /\ RbIdle
    /\ ExIdle
    /\ LayIdle
    /\ RtIdle
    /\ AnIdle
    /\ SvIdle
    /\ CcIdle
    /\ CfIdle
    /\ DmIdle
    /\ PsIdle
    /\ CpIdle

SpecApi == InitApi /\ [][NextApi]_vars

NextRetry == RtLookup \/ RtAttempt \/ RtAfter

InitRetry ==
    /\ RtInit
    /\ RbIdle
    /\ ExIdle
    /\ LayIdle
    /\ ApiIdle
    /\ AnIdle
    /\ SvIdle
    /\ CcIdle
    /\ CfIdle
    /\ DmIdle
    /\ PsIdle
    /\ CpIdle

\* the interpreter keeps executing the call it is in
SpecRetry == InitRetry /\ [][NextRetry]_vars /\ WF_vars(NextRetry)

NextAnalyse == AnAssignIds \/ AnPair \/ AnExtend

InitAnalyse ==
    /\ AnInit
    /\ RbIdle
    /\ ExIdle
    /\ LayIdle
    /\ ApiIdle
    /\ RtIdle
    /\ SvIdle
    /\ CcIdle
    /\ CfIdle
    /\ DmIdle
    /\ PsIdle
    /\ CpIdle

SpecAnalyse == InitAnalyse /\ [][NextAnalyse]_vars

NextSubstitute == SvSubstitute

InitSubstitute ==
    /\ SvInit
    /\ RbIdle
    /\ ExIdle
    /\ LayIdle
    /\ ApiIdle
    /\ RtIdle
    /\ AnIdle
    /\ CcIdle
    /\ CfIdle
    /\ DmIdle
    /\ PsIdle
    /\ CpIdle

SpecSubstitute == InitSubstitute /\ [][NextSubstitute]_vars

NextConcurrent == CcEnter \/ CcStep \/ CcStepEscapes \/ CcLeave

InitConcurrent ==
    /\ CcInit
    /\ RbIdle
    /\ ExIdle
    /\ LayIdle
    /\ ApiIdle
    /\ RtIdle
    /\ AnIdle
    /\ SvIdle
    /\ CfIdle
    /\ DmIdle
    /\ PsIdle
    /\ CpIdle

SpecConcurrent == InitConcurrent /\ [][NextConcurrent]_vars

NextConfig ==
    \/ CfEdit
    \/ \E op \in {"load", "reload"} : CfCall("t1", op)
    \/ CfStep("t1")

InitConfig ==
    /\ CfInit
    /\ RbIdle
    /\ ExIdle
    /\ LayIdle
    /\ ApiIdle
    /\ RtIdle
    /\ AnIdle
    /\ SvIdle
    /\ CcIdle
    /\ DmIdle
    /\ PsIdle
    /\ CpIdle

\* one thread: the calls follow one another
SpecConfig == InitConfig /\ [][NextConfig]_vars

NextConfigRace ==
    \/ CfEdit
    \/ CfCall("t1", "load")
    \/ CfCall("t2", "reload")
    \/ \E t \in Threads : CfStep(t)

\* one thread calls _load_config while another calls reload_config
SpecConfigRace == InitConfig /\ [][NextConfigRace]_vars

NextDemographics == DmCalculate

InitDemographics ==
    /\ DmInit
    /\ RbIdle
    /\ ExIdle
    /\ LayIdle
    /\ ApiIdle
    /\ RtIdle
    /\ AnIdle
    /\ SvIdle
    /\ CcIdle
    /\ CfIdle
    /\ PsIdle
    /\ CpIdle

SpecDemographics == InitDemographics /\ [][NextDemographics]_vars

NextPreset == PsPresetFor \/ PsBundlesFor

InitPreset ==
    /\ PsInit
    /\ RbIdle
    /\ ExIdle
    /\ LayIdle
    /\ ApiIdle
    /\ RtIdle
    /\ AnIdle
    /\ SvIdle
    /\ CcIdle
    /\ CfIdle
    /\ DmIdle
    /\ CpIdle

SpecPreset == InitPreset /\ [][NextPreset]_vars

NextCompose ==
    ComposeEmpty \/ CpEnter \/ CpInvoke \/ CpApply \/ FbIter \/ FbReturn

InitCompose ==
    /\ CpInit
    /\ RbIdle
    /\ ExIdle
    /\ ApiIdle
    /\ RtIdle
    /\ AnIdle
    /\ SvIdle
    /\ CcIdle
    /\ CfIdle
    /\ DmIdle
    /\ PsIdle

\* the interpreter keeps executing the node it is in
SpecCompose == InitCompose /\ [][NextCompose]_vars /\ WF_vars(NextCompose)

====
